---- MODULE Spec2Model ----
(***************************************************************************)
(* Verification model of the sprite-outline extraction code of the         *)
(* repository (pintxos/shape-extract.js and its revisions, the             *)
(* tower-battle game).                                                     *)
(*                                                                         *)
(* The module holds several state machines, one per revision of the code.  *)
(* Each machine owns a group of variables; a specification of one machine  *)
(* leaves the variables of the other machines at their idle value.         *)
(*                                                                         *)
(*   Pintxos  : shape-extract.js v7 / v8  (extract, makeBody, the cache)   *)
(*   V10      : shape-extract.js v10      (class ShapeExtractor)           *)
(*   Dbg      : shape-extract.js dbg-v1 / dbg-v2-crop  (extractShape)      *)
(*   TB       : tower-battle-pwa/js/towerbattle.js     (class TowerBattle) *)
(*   Fn       : the pure functions of the revisions, applied to one input  *)
(*   G        : towerbattle.js start / drop / gameOver and the spawn timer *)
(*   Bar      : bar-proto/game.js (the day loop and its mini-games)        *)
(*   Lb       : the Leaderboard class of the tower-battle page             *)
(***************************************************************************)
EXTENDS Integers, Sequences, FiniteSets, TLC

VARIABLES
  \* ---- shape-extract.js v7 / v8 (IIFE closure state and its environment)
  rev,        \* which revision of the file is loaded: "v7" or "v8"
  Matter,     \* window.Matter: "none", "nohull" (no Vertices.hull) or "full"
  image,      \* the asset behind each path (what new Image() will deliver)
  cache,      \* const cache = new Map(): maskPath -> promise id (0: no entry)
  promises,   \* the promises created by extract(), by id
  calls,      \* the calls of extract()/makeBody() made so far
  imgLoads,   \* per path: how many image loads were started
  pixelRuns,  \* per path: how many times the pixel work was started
  callBudget, \* how many calls the environment makes in this run
  \* ---- shape-extract.js v10 (class ShapeExtractor, one instance)
  opts10,     \* the fields the constructor set from opts
  asset10,    \* the image behind each URL
  cache10,    \* this.cache: key -> the cached res (NoRes10: no entry)
  calls10,    \* the calls of load() made so far
  loads10,    \* per URL: how many image loads were started
  extracts10, \* per key: how many times #extract ran
  budget10,   \* how many calls the environment makes in this run
  \* ---- shape-extract.js dbg-v1 / dbg-v2-crop (no state of its own)
  revDbg,     \* which revision of the file is loaded
  assetDbg,   \* the image behind each URL
  callsDbg,   \* the calls of ShapeExtract.extract(options) made so far
  budgetDbg,  \* how many calls the environment makes in this run
  \* ---- towerbattle.js (one TowerBattle instance, after prepareSprites)
  animals,       \* this.assets.animals, with what the tracer makes of each
  animalIndex,   \* this.animalIndex
  verticesCache, \* this.verticesCache: src -> vertex count (Undef: no entry)
  localStore,    \* localStorage: src -> vertex count stored under its key
  spawns,        \* the calls of spawnNext() made so far
  active,        \* this.active
  world,         \* how many animal bodies World.add put into this.world
  budgetTB,      \* how many calls the environment makes in this run
  \* ---- the pure functions (binarizers, component and contour code)
  fnIn,       \* the arguments
  fnOp,       \* the function that was applied ("": none yet)
  fnOut,      \* what it returned
  \* ---- towerbattle.js (start, drop, gameOver, the loop, the spawn timer)
  runningG,     \* this.running
  engineG,      \* which Engine.create() this.engine / this.world came from
  bodiesG,      \* the 'animal' bodies of this.world
  activeG,      \* this.active: the id of a body (0: null)
  nextIdG,      \* the id the next body gets
  timersG,      \* the pending 120 ms timers of drop(): the engine of each
  startsG,      \* the calls of start() suspended at `await loadImage`
  spriteMapG,   \* this.spriteMap: the animals whose image is loaded
  budgetG,      \* how many start() and drop() calls the player still makes
  \* ---- bar-proto/game.js
  dataBar,    \* window.BAR_DATA.start: the gauges a game starts with
  SBar,       \* const S: day, gold, rep, fear, sup, cur, phase
  miniBar,    \* the mini-game whose controls are in ui.miniBody ("": none)
  picksBar,   \* startSupply: picks.length
  endingBar,  \* the ending winCheck() rendered ("": none)
  doneBar,    \* actions completed since the day counter last changed
  actionsBar, \* actions completed since the game was (re)started
  \* ---- Leaderboard (localStorage and the clock)
  storeLb,    \* the parsed array under the storage key
  nowLb,      \* Date.now()
  addedLb,    \* the scores add() has stored so far
  lastAddLb,  \* the last add(): its score and what get() returned before it
  budgetLb    \* how many add() calls the page still makes

varsPx == <<rev, Matter, image, cache, promises, calls, imgLoads, pixelRuns, callBudget>>

varsV10 == <<opts10, asset10, cache10, calls10, loads10, extracts10, budget10>>

varsDbg == <<revDbg, assetDbg, callsDbg, budgetDbg>>

varsTB == <<animals, animalIndex, verticesCache, localStore, spawns, active, world, budgetTB>>

varsFn == <<fnIn, fnOp, fnOut>>

varsG == <<runningG, engineG, bodiesG, activeG, nextIdG, timersG, startsG, spriteMapG, budgetG>>

varsBar == <<dataBar, SBar, miniBar, picksBar, endingBar, doneBar, actionsBar>>

varsLb == <<storeLb, nowLb, addedLb, lastAddLb, budgetLb>>

vars == <<varsPx, varsV10, varsDbg, varsTB, varsFn, varsG, varsBar, varsLb>>

\* the variables of the other machines, left alone by the actions of one
othersPx == <<varsV10, varsDbg, varsTB, varsFn, varsG, varsBar, varsLb>>
othersV10 == <<varsPx, varsDbg, varsTB, varsFn, varsG, varsBar, varsLb>>
othersDbg == <<varsPx, varsV10, varsTB, varsFn, varsG, varsBar, varsLb>>
othersTB == <<varsPx, varsV10, varsDbg, varsFn, varsG, varsBar, varsLb>>
othersFn == <<varsPx, varsV10, varsDbg, varsTB, varsG, varsBar, varsLb>>
othersG == <<varsPx, varsV10, varsDbg, varsTB, varsFn, varsBar, varsLb>>
othersBar == <<varsPx, varsV10, varsDbg, varsTB, varsFn, varsG, varsLb>>
othersLb == <<varsPx, varsV10, varsDbg, varsTB, varsFn, varsG, varsBar>>

(***************************************************************************)
(* Bounds of the model.                                                    *)
(***************************************************************************)
MaxCalls == 2

\* an absent option (cfg.x === undefined) / an absent value
Undef == 0 - 1

\* a ?? b
Nullish(a, b) == IF a = Undef THEN b ELSE a

(***************************************************************************)
(* shape-extract.js v7 / v8: the environment.                              *)
(***************************************************************************)
Revs == {"v7", "v8"}

Paths == {"a.png", "b.png"}

\* The thrown value of a failing canvas read: e.message and String(e).
SecurityError == [message |-> "The operation is insecure.", str |-> "SecurityError: The operation is insecure."]
BareError == [message |-> "", str |-> "Error"]
NoError == [message |-> "", str |-> ""]

\* An asset.  fate: what the Image element does after img.src is set.
\* iw, ih: naturalWidth/naturalHeight.  taintBase: the read of the base canvas
\* throws.  cropErr: what the read of the analysis canvas throws (NoError:
\* nothing).  A pixel has one of two alpha values, faintAlpha or opaqueAlpha;
\* faint/opaque: the pixels of the base canvas with each value;
\* aFaint/aOpaque: the same for the analysis canvas.  contourLen: the length of
\* the traceMoore walk over the largest component (0: buildBoundary found no
\* start, sx = -1).  edgePts: what collectEdgePoints returns.  hullLen: the
\* length of Matter.Vertices.hull(edgePts) (0: a falsy hull).  bw, bh: the
\* bounding box of the solid pixels.
GoodImage ==
  [fate |-> "load", iw |-> 64, ih |-> 64, taintBase |-> FALSE, cropErr |-> NoError,
   faintAlpha |-> 100, opaqueAlpha |-> 255,
   faint |-> 100, opaque |-> 400, aFaint |-> 900, aOpaque |-> 3600,
   contourLen |-> 160, edgePts |-> 150, hullLen |-> 12, bw |-> 48, bh |-> 60]

Images ==
  { GoodImage,
    [GoodImage EXCEPT !.fate = "error"],
    [GoodImage EXCEPT !.fate = "never"],
    [GoodImage EXCEPT !.iw = 0],
    [GoodImage EXCEPT !.taintBase = TRUE],
    \* fully transparent
    [GoodImage EXCEPT !.faint = 0, !.opaque = 0, !.aFaint = 0, !.aOpaque = 0,
                      !.contourLen = 0, !.edgePts = 0, !.hullLen = 0],
    \* 59 opaque pixels and one faint one
    [GoodImage EXCEPT !.faint = 1, !.opaque = 59],
    [GoodImage EXCEPT !.cropErr = SecurityError],
    [GoodImage EXCEPT !.cropErr = BareError],
    [GoodImage EXCEPT !.aFaint = 1, !.aOpaque = 119],
    \* a contour of 25 points: long enough for v8, too short for v7
    [GoodImage EXCEPT !.contourLen = 25, !.edgePts = 40, !.hullLen = 8],
    \* a short contour, 11 edge points (enough for v7 only), a hull of 5
    [GoodImage EXCEPT !.contourLen = 5, !.edgePts = 11, !.hullLen = 5],
    [GoodImage EXCEPT !.contourLen = 5, !.edgePts = 11, !.hullLen = 7],
    [GoodImage EXCEPT !.contourLen = 5, !.edgePts = 30, !.hullLen = 0],
    \* no boundary pixel off the border: sx = -1
    [GoodImage EXCEPT !.contourLen = 0, !.edgePts = 0, !.hullLen = 0] }

\* cfg objects passed to extract(); Undef: the option is not given
DefaultCfg == [alphaThreshold |-> Undef, threshold |-> Undef, nPoints |-> Undef, minContour |-> Undef]

\* a threshold above the faint pixels, given under the older option name
StrictCfg == [DefaultCfg EXCEPT !.threshold = 200]

Cfgs == { DefaultCfg, StrictCfg, [DefaultCfg EXCEPT !.nPoints = 8] }

\* an absent path option (opt.maskPath === undefined)
NoPath == ""

\* opt objects passed to makeBody(): maskPath and shapeCfg (Undef fields of the
\* cfg are absent ones, so DefaultCfg is also the {} of `opt.shapeCfg ?? {}`)
\* targetSize in pixels, hitInset in thousandths
MakeBodyOpts ==
  { [maskPath |-> NoPath, shapeCfg |-> DefaultCfg, targetSize |-> Undef, hitInset |-> Undef],
    [maskPath |-> "b.png", shapeCfg |-> DefaultCfg, targetSize |-> Undef, hitInset |-> Undef],
    [maskPath |-> NoPath, shapeCfg |-> StrictCfg, targetSize |-> Undef, hitInset |-> Undef],
    [maskPath |-> NoPath, shapeCfg |-> DefaultCfg, targetSize |-> 100, hitInset |-> 900] }

\* what Matter.Bodies.fromVertices does with a vertex list: it returns a body,
\* throws, or returns a falsy value
FromVerticesOutcomes == {"body", "throws", "falsy"}

(***************************************************************************)
(* shape-extract.js v7 / v8: extract().                                    *)
(***************************************************************************)
\* const out = { ok:false, reason:"", maskPath }; ...; out.reason = r; return out
FailOut(path, r) ==
  [ok |-> FALSE, reason |-> r, maskPath |-> path, keys |-> {"ok", "reason", "maskPath"},
   pts |-> 0, usedHull |-> FALSE, contourLen |-> 0, solid |-> 0, bw |-> 0, bh |-> 0]

\* the out object of a successful extraction; pts: the length of out.pts;
\* solid: the solid pixels of the base canvas, of which out.solidRatio is the
\* share in the bounding box; bw, bh: out.bw, out.bh (0: undefined), set by
\* PixelWork
OkOut(path, n, hull, clen, solid) ==
  [ok |-> TRUE, reason |-> "", maskPath |-> path,
   keys |-> {"ok", "reason", "maskPath", "pts", "iw", "ih", "bw", "bh",
             "xOffset", "yOffset", "solidRatio", "_dbg"},
   pts |-> n, usedHull |-> hull, contourLen |-> clen, solid |-> solid, bw |-> 0, bh |-> 0]

\* the value an await of a pending promise has not produced yet
NoOut == FailOut("", "")

\* the pixels with a > alphaThreshold among nFaint faint and nOpaque opaque ones
SolidCount(img, nFaint, nOpaque, thr) ==
  (IF img.faintAlpha > thr THEN nFaint ELSE 0) + (IF img.opaqueAlpha > thr THEN nOpaque ELSE 0)

\* the length of resampleClosed(points, N) for a ring of M points, no two
\* consecutive ones equal (the perimeter is then above 1e-6)
ResampleLen(M, N) == IF M < 3 THEN M ELSE IF N > 0 THEN N ELSE 0

DefaultMinContour(r) == IF r = "v7" THEN 30 ELSE 20
MinEdgePts(r) == IF r = "v7" THEN 10 ELSE 12
HullMissingReason(r) ==
  IF r = "v7" THEN "contour too short (and Matter.Vertices.hull missing)"
  ELSE "contour too short (Vertices.hull missing)"
EdgePtsReason(r) ==
  IF r = "v7" THEN "contour too short (edgePts too few)"
  ELSE "contour too short (edge pts too few)"

\* e.message alone
ErrTextMessageOnly(e) == e.message

\* e.message || String(e)
ErrText(e) == IF e.message # "" THEN e.message ELSE e.str

MinSolid == 60
MinCropSolid == 120
MinHull == 6
MinPts == 12
DefaultNPoints == 140
DefaultAlphaThreshold == 1

\* let pts = resampleClosed(contour, nPoints); ... out.ok = true; ... return out
Resampled(path, M, nPoints, hull, clen, solid) ==
  IF ResampleLen(M, nPoints) < MinPts THEN FailOut(path, "resample failed")
  ELSE OkOut(path, ResampleLen(M, nPoints), hull, clen, solid)

\* the hull fallback of extract(): if(!contour){ ... }
HullFallback(r, matter, path, img, nPoints, solid) ==
  IF matter # "full" THEN FailOut(path, HullMissingReason(r))
  ELSE IF img.edgePts < MinEdgePts(r) THEN FailOut(path, EdgePtsReason(r))
  ELSE IF img.hullLen < MinHull THEN FailOut(path, "contour too short (hull failed)")
  ELSE Resampled(path, img.hullLen, nPoints, TRUE, img.hullLen, solid)

\* The body of the async function of extract() after `await loadImage`
\* delivered img: everything up to the return of out, the catch included.
PixelWork(r, matter, path, img, cfg) ==
  LET alphaThreshold == Nullish(cfg.alphaThreshold, Nullish(cfg.threshold, DefaultAlphaThreshold))
      nPoints == Nullish(cfg.nPoints, DefaultNPoints)
      minContour == Nullish(cfg.minContour, DefaultMinContour(r))
      solid == SolidCount(img, img.faint, img.opaque, alphaThreshold)
      aSolid == SolidCount(img, img.aFaint, img.aOpaque, alphaThreshold)
      out == IF img.iw = 0 \/ img.ih = 0 THEN FailOut(path, "natural size 0")
             ELSE IF img.taintBase THEN FailOut(path, "getImageData failed (tainted?)")
             ELSE IF solid < MinSolid THEN FailOut(path, "too few solid pixels (mask empty?)")
             ELSE IF img.cropErr # NoError THEN FailOut(path, ErrText(img.cropErr))
             ELSE IF aSolid < MinCropSolid THEN FailOut(path, "cropped solid too small")
             ELSE IF img.contourLen > 0 /\ img.contourLen >= minContour
                  THEN Resampled(path, img.contourLen, nPoints, FALSE, img.contourLen, solid)
             ELSE HullFallback(r, matter, path, img, nPoints, solid)
  IN  IF out.ok THEN [out EXCEPT !.bw = img.bw, !.bh = img.bh] ELSE out

\* } catch(e){ out.reason = e.message || String(e); return out; } for the
\* rejection of loadImage: new Error("Image load error: " + src)
LoadErrorOut(path) ==
  FailOut(path, ErrText([message |-> "Image load error: " \o path, str |-> "Error: Image load error"]))

\* the promises of the cache, by id
Promise(path, cfg) == [maskPath |-> path, cfg |-> cfg, settled |-> FALSE, out |-> NoOut]

\* extract() with the promise left out of the cache until it has settled
ExtractCacheWhenSettled(path, cfg, pid) ==
  IF cache[path] # 0 /\ promises[cache[path]].settled
  THEN /\ pid = cache[path]
       /\ UNCHANGED <<cache, promises, imgLoads>>
  ELSE /\ pid = Len(promises) + 1
       /\ promises' = Append(promises, Promise(path, cfg))
       /\ imgLoads' = [imgLoads EXCEPT ![path] = @ + 1]
       /\ cache' = [cache EXCEPT ![path] = pid]

\* async function extract(maskPath, cfg): the synchronous part of the call.
\* pid is the promise the caller gets.  The async arrow function runs up to
\* `await loadImage(maskPath)`, which starts the image load, and the pending
\* promise is stored before extract returns.
Extract(path, cfg, pid) ==
  IF cache[path] # 0
  THEN /\ pid = cache[path]
       /\ UNCHANGED <<cache, promises, imgLoads>>
  ELSE /\ pid = Len(promises) + 1
       /\ promises' = Append(promises, Promise(path, cfg))
       /\ imgLoads' = [imgLoads EXCEPT ![path] = @ + 1]
       /\ cache' = [cache EXCEPT ![path] = pid]

NoBody == [shape |-> "none", fallback |-> FALSE, reason |-> "", forcedRect |-> FALSE]

\* a call; targetSize, hitInset: the options of makeBody; side: the side of the
\* rectangle collider after Body.scale, a fraction in thousandths of a pixel
\* (n = 0: no rectangle)
Call(kind, tex, path, cfg, pc, pid) ==
  [kind |-> kind, texturePath |-> tex, maskPath |-> path, cfg |-> cfg, pc |-> pc,
   promise |-> pid, out |-> NoOut, body |-> NoBody, error |-> "",
   targetSize |-> Undef, hitInset |-> Undef, side |-> [n |-> 0, d |-> 1]]

\* a caller invokes ShapeExtract.extract(maskPath, cfg) and awaits the promise
CallExtract(path, cfg) ==
  /\ Len(calls) < callBudget
  /\ \E pid \in 1..(Len(promises) + 1) :
       /\ Extract(path, cfg, pid)
       /\ calls' = Append(calls, Call("extract", NoPath, path, cfg, "await", pid))
  /\ UNCHANGED <<rev, Matter, image, pixelRuns, callBudget, othersPx>>

\* a caller invokes ShapeExtract.makeBody(texturePath, x, y, opt): up to the
\* `await extract(maskPath, opt.shapeCfg ?? {})`
CallMakeBody(tex, opt) ==
  /\ Len(calls) < callBudget
  /\ LET maskPath == IF opt.maskPath = NoPath THEN tex ELSE opt.maskPath
     IN  IF Matter = "none"
         THEN /\ calls' = Append(calls,
                   [Call("makeBody", tex, maskPath, opt.shapeCfg, "rejected", 0)
                      EXCEPT !.error = "Matter.js not loaded",
                             !.targetSize = opt.targetSize, !.hitInset = opt.hitInset])
              /\ UNCHANGED <<cache, promises, imgLoads>>
         ELSE \E pid \in 1..(Len(promises) + 1) :
                /\ Extract(maskPath, opt.shapeCfg, pid)
                /\ calls' = Append(calls,
                     [Call("makeBody", tex, maskPath, opt.shapeCfg, "await", pid)
                        EXCEPT !.targetSize = opt.targetSize, !.hitInset = opt.hitInset])
  /\ UNCHANGED <<rev, Matter, image, pixelRuns, callBudget, othersPx>>

\* img.onload fires for the load started by promise p: the async function
\* resumes after `await loadImage` and runs to its return
ImgLoad(p) ==
  /\ p \in 1..Len(promises)
  /\ ~promises[p].settled
  /\ LET path == promises[p].maskPath
     IN  /\ image[path].fate = "load"
         /\ promises' = [promises EXCEPT ![p].settled = TRUE,
                           ![p].out = PixelWork(rev, Matter, path, image[path], promises[p].cfg)]
         /\ pixelRuns' = [pixelRuns EXCEPT ![path] = @ + 1]
  /\ UNCHANGED <<rev, Matter, image, cache, calls, imgLoads, callBudget, othersPx>>

\* img.onerror fires: loadImage rejects, the catch block returns out
ImgError(p) ==
  /\ p \in 1..Len(promises)
  /\ ~promises[p].settled
  /\ image[promises[p].maskPath].fate = "error"
  /\ promises' = [promises EXCEPT ![p].settled = TRUE,
                    ![p].out = LoadErrorOut(promises[p].maskPath)]
  /\ UNCHANGED <<rev, Matter, image, cache, calls, imgLoads, pixelRuns, callBudget, othersPx>>

(***************************************************************************)
(* shape-extract.js v7 / v8: makeBody() after the await.                   *)
(***************************************************************************)
\* body.__dbg.reason
DbgReason(r, usedFallback, reason) ==
  IF r = "v7" THEN reason ELSE IF usedFallback THEN reason ELSE ""

\* makeBody from `if(packed && packed.ok)` to `return body`; fv is what
\* Matter.Bodies.fromVertices does when it is called
MakeBodyAfterExtract(r, packed, fv) ==
  LET tried == packed.ok
      body1 == IF tried /\ fv = "body" THEN "poly" ELSE "none"
      used1 == IF tried THEN fv = "throws" ELSE TRUE
      reason1 == IF tried
                 THEN (IF fv = "throws" THEN "fromVertices threw: Error" ELSE "")
                 ELSE (IF packed.reason # "" THEN packed.reason ELSE "extract failed")
      forced == body1 = "none"
      used2 == IF forced THEN TRUE ELSE used1
      reason2 == IF forced /\ reason1 = "" THEN "rect fallback" ELSE reason1
  IN  [shape |-> IF forced THEN "rect" ELSE body1,
       fallback |-> used2,
       reason |-> DbgReason(r, used2, reason2),
       forcedRect |-> forced]

DefaultTargetSize == 150

\* opt.hitInset ?? 0.98 (v7), ?? 0.985 (v8), in thousandths
DefaultHitInset(r) == IF r = "v7" THEN 980 ELSE 985

\* x || 1
OrOne(x) == IF x = 0 THEN 1 ELSE x

\* The side of Bodies.rectangle(x, y, targetSize, targetSize) after
\* Body.scale(body, spriteScale * hitInset, spriteScale * hitInset), where
\* spriteScale = targetSize / Math.max(packed.bw || 1, packed.bh || 1)
RectSide(r, packed, targetSize, hitInset) ==
  LET ts == Nullish(targetSize, DefaultTargetSize)
      big == IF OrOne(packed.bw) > OrOne(packed.bh) THEN OrOne(packed.bw) ELSE OrOne(packed.bh)
  IN  [n |-> ts * ts * Nullish(hitInset, DefaultHitInset(r)), d |-> big]

\* the await of call c delivers the settled value of its promise
Resume(c) ==
  /\ c \in 1..Len(calls)
  /\ calls[c].pc = "await"
  /\ promises[calls[c].promise].settled
  /\ LET packed == promises[calls[c].promise].out
     IN  IF calls[c].kind = "extract"
         THEN calls' = [calls EXCEPT ![c].pc = "done", ![c].out = packed]
         ELSE \E fv \in FromVerticesOutcomes :
                calls' = [calls EXCEPT ![c].pc = "done", ![c].out = packed,
                            ![c].body = MakeBodyAfterExtract(rev, packed, fv),
                            ![c].side = IF MakeBodyAfterExtract(rev, packed, fv).forcedRect
                                        THEN RectSide(rev, packed, calls[c].targetSize, calls[c].hitInset)
                                        ELSE @]
  /\ UNCHANGED <<rev, Matter, image, cache, promises, imgLoads, pixelRuns, callBudget, othersPx>>

(***************************************************************************)
(* shape-extract.js v7 / v8: the specifications.                           *)
(***************************************************************************)
\* the closure state right after the script ran
FreshPx ==
  /\ cache = [p \in Paths |-> 0]
  /\ promises = <<>>
  /\ calls = <<>>
  /\ imgLoads = [p \in Paths |-> 0]
  /\ pixelRuns = [p \in Paths |-> 0]

\* the machine is not part of the run
IdlePx ==
  /\ rev = "v7" /\ Matter = "none" /\ callBudget = 0
  /\ image = [p \in Paths |-> GoodImage]
  /\ FreshPx

\* the assets of the concurrency runs: one that loads, one that fails to load
\* after a while, one whose load never ends, a fully transparent one
LoadingImages == {i \in Images : i.fate # "load" \/ i = GoodImage \/ i.opaque = 0}

NextPx ==
  \/ \E path \in Paths, cfg \in Cfgs : CallExtract(path, cfg)
  \/ \E tex \in Paths, opt \in MakeBodyOpts : CallMakeBody(tex, opt)
  \/ \E p \in 1..MaxCalls + 1 : ImgLoad(p)
  \/ \E p \in 1..MaxCalls + 1 : ImgError(p)
  \/ \E c \in 1..MaxCalls + 1 : Resume(c)

(***************************************************************************)
(* Geometry shared by the revisions.  A point is <<x, y>>; coordinates are *)
(* integers in half pixels, so that a pixel centre (x + 0.5, y + 0.5) is   *)
(* <<2x + 1, 2y + 1>>.  A distance is kept as its square, a fraction       *)
(* [n, d]; the code's floating point is taken as exact.                    *)
(***************************************************************************)
NoPoint == <<0 - 9, 0 - 9>>

Frac(n, d) == [n |-> n, d |-> d]

\* f > g for fractions with positive denominators
FracGt(f, g) == f.n * g.d > g.n * f.d

Sq(v) == v * v

\* Math.hypot(p.x - a.x, p.y - a.y), squared
Dist2(p, a) == Sq(p[1] - a[1]) + Sq(p[2] - a[2])

\* an epsilon in pixels, num/den, squared and in half pixels
EpsSq(eps) == Frac(4 * Sq(eps.num), Sq(eps.den))

(***************************************************************************)
(* shape-extract.js v10: the pure part of ShapeExtractor.                  *)
(***************************************************************************)
\* #isSolid(solid, w, h, x, y)
IsSolid(solid, w, h, x, y) ==
  IF x < 0 \/ y < 0 \/ x >= w \/ y >= h THEN FALSE ELSE <<x, y>> \in solid

\* #findBoundaryStart: the first pixel in row-major order that is solid and
\* has an empty or outside 4-neighbour; NoPoint for null
FindBoundaryStart(solid, w, h) ==
  LET B == {p \in solid :
              /\ IsSolid(solid, w, h, p[1], p[2])
              /\ \/ ~IsSolid(solid, w, h, p[1] - 1, p[2])
                 \/ ~IsSolid(solid, w, h, p[1] + 1, p[2])
                 \/ ~IsSolid(solid, w, h, p[1], p[2] - 1)
                 \/ ~IsSolid(solid, w, h, p[1], p[2] + 1)}
  IN  IF B = {} THEN NoPoint
      ELSE CHOOSE p \in B : \A q \in B : p[2] < q[2] \/ (p[2] = q[2] /\ p[1] <= q[1])

\* const dirs of #traceBoundary; dirs[i] is Dirs[i + 1]
Dirs == << <<1, 0>>, <<1, 1>>, <<0, 1>>, <<0 - 1, 1>>,
           <<0 - 1, 0>>, <<0 - 1, 0 - 1>>, <<0, 0 - 1>>, <<1, 0 - 1>> >>

\* function dirIndex(from, to)
DirIndex(from, to) ==
  LET hit == {i \in 0..7 : Dirs[i + 1] = <<to[1] - from[1], to[2] - from[2]>>}
  IN  IF hit = {} THEN 0 ELSE CHOOSE i \in hit : TRUE

\* the pixel-centre point pushed for pixel cur
Centre(cur) == <<2 * cur[1] + 1, 2 * cur[2] + 1>>

Step(cur, idx) == <<cur[1] + Dirs[idx + 1][1], cur[2] + Dirs[idx + 1][2]>>

\* the new backtrack pixel of #traceBoundary: const backIdx = (idx + 6) % 8
NextPrev(cur, idx) == Step(cur, (idx + 6) % 8)

\* one pass of the while loop of #traceBoundary, from the test of
\* `steps++ < maxSteps` on; t holds the loop's variables, t.done: the loop was
\* left
TraceStep(solid, w, h, start, t) ==
  IF t.done THEN t
  ELSE IF ~(t.steps < w * h * 2) THEN [t EXCEPT !.done = TRUE]
  ELSE
    LET out1 == Append(t.out, Centre(t.cur))
        k == DirIndex(t.cur, t.prev)
        hits == {i \in 1..8 :
                   IsSolid(solid, w, h, Step(t.cur, (k + i) % 8)[1], Step(t.cur, (k + i) % 8)[2])}
        i == CHOOSE j \in hits : \A m \in hits : j <= m
        idx == (k + i) % 8
        next == Step(t.cur, idx)
    IN  IF hits = {} THEN [t EXCEPT !.out = out1, !.done = TRUE]
        ELSE IF t.firstNext # NoPoint /\ t.cur = start /\ next = t.firstNext
             THEN [t EXCEPT !.out = out1, !.done = TRUE]
        ELSE [cur |-> next, prev |-> NextPrev(t.cur, idx), out |-> out1, steps |-> t.steps + 1,
              firstNext |-> IF t.firstNext = NoPoint THEN next ELSE t.firstNext, done |-> FALSE]

\* 2^k passes of the while loop of #traceBoundary: one half of them, then
\* the other half from the variables a the first half leaves
RECURSIVE TraceLoop(_, _, _, _, _, _)
TraceLoop(solid, w, h, start, t, k) ==
  IF k = 0 THEN TraceStep(solid, w, h, start, t)
  ELSE CHOOSE r \in {TraceLoop(solid, w, h, start, a, k - 1) :
                       a \in {TraceLoop(solid, w, h, start, t, k - 1)}} : TRUE

\* the variables of #traceBoundary before the while loop
TraceVars(s) ==
  [cur |-> s, prev |-> <<s[1] - 1, s[2]>>, out |-> <<>>, steps |-> 0,
   firstNext |-> NoPoint, done |-> FALSE]

\* #traceBoundary(solid, w, h, sx, sy): the loop is left after at most
\* maxSteps + 1 tests, and 2^k passes cover them
TraceBoundary(solid, w, h, s) ==
  LET k == CHOOSE j \in 0..30 : 2^j > w * h * 2 /\ (j = 0 \/ 2^(j - 1) <= w * h * 2)
  IN  TraceLoop(solid, w, h, s, TraceVars(s), k).out

\* #perpDist(p, a, b), squared: the distance to the line through a and b
PerpDist(p, a, b) ==
  LET dx == b[1] - a[1]
      dy == b[2] - a[2]
  IN  IF dx = 0 /\ dy = 0 THEN Frac(Dist2(p, a), 1)
      ELSE Frac(Sq(dx * (p[2] - a[2]) - dy * (p[1] - a[1])), Sq(dx) + Sq(dy))

\* the for loop of #rdp over the slice points[lo..hi]: <<maxDist, index>>,
\* the first index of the largest distance, <<0, lo>> when no distance is
\* above 0 (index 0 of the slice)
RdpScan(points, lo, hi) ==
  LET I == (lo + 1)..(hi - 1)
      d == [i \in I |-> PerpDist(points[i], points[lo], points[hi])]
      best == {i \in I : /\ FracGt(d[i], Frac(0, 1))
                         /\ \A j \in I : ~FracGt(d[j], d[i])
                         /\ \A j \in I : j < i => FracGt(d[i], d[j])}
  IN  IF best = {} THEN <<Frac(0, 1), lo>>
      ELSE LET i == CHOOSE j \in best : TRUE IN <<d[i], i>>

\* left.slice(0, -1)
DropLast(seq) == SubSeq(seq, 1, Len(seq) - 1)

\* #rdp of the slice points[lo..hi], for eps >= 0; scan is what the for loop
\* leaves in maxDist and index
RECURSIVE RdpSlice(_, _, _, _)
RdpSlice(points, lo, hi, eps) ==
  IF hi - lo + 1 <= 2 THEN SubSeq(points, lo, hi)
  ELSE CHOOSE r \in {IF FracGt(scan[1], EpsSq(eps))
                     THEN DropLast(RdpSlice(points, lo, scan[2], eps))
                            \o RdpSlice(points, scan[2], hi, eps)
                     ELSE <<points[lo], points[hi]>> :
                       scan \in {RdpScan(points, lo, hi)}} : TRUE

\* #rdp(points, eps); points[i] of the code is points[i + 1] here
Rdp(points, eps) == RdpSlice(points, 1, Len(points), eps)

\* the cap of #extract: if (pts.length > this.maxVerts) { ... }
CapVerts(pts, maxVerts) ==
  IF Len(pts) > maxVerts
  THEN [i \in 1..(IF maxVerts > 0 THEN maxVerts ELSE 0) |->
          pts[((i - 1) * Len(pts)) \div maxVerts + 1]]
  ELSE pts

\* if (pts.length >= 3) { ... if (d2 < 4) pts.pop(); }   (4 px^2 is 16 here)
CloseLoop(pts) ==
  IF Len(pts) >= 3 /\ Dist2(pts[1], pts[Len(pts)]) < 4 * 4
  THEN SubSeq(pts, 1, Len(pts) - 1)
  ELSE pts

(***************************************************************************)
(* shape-extract.js v10: the environment.                                  *)
(***************************************************************************)
Rect(x0, y0, x1, y1) == (x0..x1) \X (y0..y1)

\* An image.  fate: what the Image element does after img.src is set; w, h:
\* its size; opaque: its pixels of alpha 255; faint: its pixels of alpha
\* faintAlpha; the rest has alpha 0.  tainted: the image taints the canvas it
\* is drawn on, so that ctx.getImageData throws a SecurityError.
Asset(w, h, opaque) ==
  [fate |-> "load", w |-> w, h |-> h, opaque |-> opaque, faint |-> {}, faintAlpha |-> 8,
   tainted |-> FALSE]

Texture10 == Asset(5, 4, Rect(0, 0, 4, 3))

\* the masks: a hook, a stair, a square, a slab with a spur, a transparent
\* image, a hook with a halo of pixels at the default threshold
HookMask == Asset(5, 4, Rect(0, 1, 0, 2) \cup Rect(1, 0, 2, 1))
StairMask == Asset(5, 4, Rect(0, 2, 0, 3) \cup Rect(1, 0, 4, 2))
SquareMask == Asset(5, 4, Rect(0, 0, 3, 3))
SlabMask == Asset(5, 4, Rect(0, 0, 0, 0) \cup Rect(1, 0, 3, 3))
EmptyMask == Asset(5, 4, {})
HaloMask == [HookMask EXCEPT !.faint = Rect(0, 0, 4, 3) \ HookMask.opaque]

Masks10 ==
  { HookMask, StairMask, SquareMask, SlabMask, EmptyMask, HaloMask,
    [HookMask EXCEPT !.fate = "error"],
    [HookMask EXCEPT !.fate = "never"],
    [HookMask EXCEPT !.tainted = TRUE] }

\* the opts given to the constructor (Undef: not given); simplifyEps in
\* pixels as num/den
NoOpts10 == [alphaThreshold |-> Undef, simplifyEps |-> [num |-> Undef, den |-> 1],
             maxVerts |-> Undef, minArea |-> Undef]

\* constructor(opts = {})
DefaultAlphaThreshold10 == 8
DefaultMaxVerts10 == 80
DefaultMinArea10 == 120
Ctor10(o) ==
  [alphaThreshold |-> Nullish(o.alphaThreshold, DefaultAlphaThreshold10),
   simplifyEps |-> IF o.simplifyEps.num = Undef THEN [num |-> 6, den |-> 5] ELSE o.simplifyEps,
   maxVerts |-> Nullish(o.maxVerts, DefaultMaxVerts10),
   minArea |-> Nullish(o.minArea, DefaultMinArea10)]

(***************************************************************************)
(* shape-extract.js v10: #extract.                                         *)
(***************************************************************************)
\* the alpha byte the canvas holds at p after ctx.drawImage(maskImg, 0, 0)
CanvasAlpha(mask, p) ==
  IF p[1] >= mask.w \/ p[2] >= mask.h THEN 0
  ELSE IF p \in mask.opaque THEN 255
  ELSE IF p \in mask.faint THEN mask.faintAlpha
  ELSE 0

\* the solid map of #extract: a > thr
SolidMap(mask, imgW, imgH, thr) ==
  {p \in (0..imgW - 1) \X (0..imgH - 1) : CanvasAlpha(mask, p) > thr}

\* a failure object of #extract: verts: null (hasVerts: the verts field holds
\* a list; nVerts: its length)
FailRes10(r) ==
  [ok |-> FALSE, reason |-> r, hasVerts |-> FALSE, nVerts |-> 0, pts |-> <<>>, rawLen |-> 0,
   texUrl |-> "", maskUrl |-> ""]

\* the value of a call that has not returned
NoRes10 == FailRes10("")

MinRaw10 == 30
MinVerts10 == 12

\* #extract from `// simplify` on
Simplify10(raw, o) ==
  LET pts == CloseLoop(CapVerts(Rdp(raw, o.simplifyEps), o.maxVerts))
  IN  IF Len(pts) < MinVerts10 THEN FailRes10("simplified contour too few points")
      ELSE [ok |-> TRUE, reason |-> "", hasVerts |-> TRUE, nVerts |-> Len(pts),
            pts |-> pts, rawLen |-> Len(raw), texUrl |-> "", maskUrl |-> ""]

\* #extract(maskImg, imgW, imgH), when the canvas can be read
Extract10(mask, imgW, imgH, o) ==
  LET solid == SolidMap(mask, imgW, imgH, o.alphaThreshold)
      start == FindBoundaryStart(solid, imgW, imgH)
  IN  IF Cardinality(solid) = 0 THEN FailRes10("mask has no solid pixels")
      ELSE IF Cardinality(solid) < o.minArea THEN FailRes10("too small mask area")
      ELSE IF start = NoPoint THEN FailRes10("no boundary pixel found")
      ELSE LET raw == TraceBoundary(solid, imgW, imgH, start)
           IN  IF Len(raw) < MinRaw10 THEN FailRes10("contour too short")
               ELSE Simplify10(raw, o)

(***************************************************************************)
(* shape-extract.js v10: load() and the image events.                      *)
(***************************************************************************)
TexUrls10 == {"t.png"}
MaskUrls10 == {"m.png", "n.png"}
Urls10 == TexUrls10 \cup MaskUrls10

\* const key = `${texUrl}||${maskUrl}`
Key10(texUrl, maskUrl) == texUrl \o "||" \o maskUrl

Keys10 == {Key10(t, m) : t \in TexUrls10, m \in MaskUrls10}

\* the opts of the runs: the defaults, a small minArea with several maxVerts,
\* a threshold below the halo
SmallOpts10 == [NoOpts10 EXCEPT !.minArea = 5]

Opts10 ==
  { NoOpts10, SmallOpts10,
    [SmallOpts10 EXCEPT !.maxVerts = 12],
    [SmallOpts10 EXCEPT !.maxVerts = 13],
    [SmallOpts10 EXCEPT !.maxVerts = 20],
    [SmallOpts10 EXCEPT !.alphaThreshold = 7] }

\* a call of load(): inFlight: a call with the same key was awaiting its
\* images when this one was made; ownLoads: this call started image loads;
\* texDone, maskDone: the image promises that resolved; ranExtract: this call
\* ran #extract
Call10(texUrl, maskUrl, pc, inFlight, ownLoads, res) ==
  [texUrl |-> texUrl, maskUrl |-> maskUrl, pc |-> pc, inFlight |-> inFlight,
   ownLoads |-> ownLoads, texDone |-> FALSE, maskDone |-> FALSE,
   ranExtract |-> FALSE, res |-> res, error |-> ""]

\* async load(texUrl, maskUrl) up to its first await (or its return on a hit)
Load10(texUrl, maskUrl) ==
  LET key == Key10(texUrl, maskUrl)
      inFlight == \E c \in 1..Len(calls10) :
                    /\ calls10[c].pc = "await"
                    /\ Key10(calls10[c].texUrl, calls10[c].maskUrl) = key
  IN  /\ Len(calls10) < budget10
      /\ IF cache10[key] # NoRes10
         THEN /\ calls10' = Append(calls10, Call10(texUrl, maskUrl, "done", inFlight, FALSE, cache10[key]))
              /\ UNCHANGED loads10
         ELSE /\ calls10' = Append(calls10, Call10(texUrl, maskUrl, "await", inFlight, TRUE, NoRes10))
              /\ loads10' = [u \in Urls10 |->
                               loads10[u] + (IF u = texUrl THEN 1 ELSE 0) + (IF u = maskUrl THEN 1 ELSE 0)]
      /\ UNCHANGED <<opts10, asset10, cache10, extracts10, budget10, othersV10>>

\* load() after the await: #extract, the two assignments, cache.set, return.
\* #extract has no try/catch: when ctx.getImageData throws, the exception
\* leaves #extract and load(), whose promise rejects.
AfterLoads10(c) ==
  LET call == calls10[c]
      key == Key10(call.texUrl, call.maskUrl)
      res == [Extract10(asset10[call.maskUrl], asset10[call.texUrl].w, asset10[call.texUrl].h, opts10)
                EXCEPT !.texUrl = call.texUrl, !.maskUrl = call.maskUrl]
  IN  IF asset10[call.maskUrl].tainted
      THEN /\ calls10' = [calls10 EXCEPT ![c].pc = "rejected", ![c].texDone = TRUE,
                                         ![c].maskDone = TRUE, ![c].ranExtract = TRUE,
                                         ![c].error = SecurityError.str]
           /\ extracts10' = [extracts10 EXCEPT ![key] = @ + 1]
           /\ UNCHANGED cache10
      ELSE /\ calls10' = [calls10 EXCEPT ![c].pc = "done", ![c].texDone = TRUE, ![c].maskDone = TRUE,
                                         ![c].ranExtract = TRUE, ![c].res = res]
           /\ cache10' = [cache10 EXCEPT ![key] = res]
           /\ extracts10' = [extracts10 EXCEPT ![key] = @ + 1]

\* img.onload fires for one of the two images of call c; when it is the
\* second one, Promise.all resolves and load() runs on to its return
Img10Load(c, slot) ==
  /\ c \in 1..Len(calls10)
  /\ calls10[c].pc = "await"
  /\ LET url == IF slot = "tex" THEN calls10[c].texUrl ELSE calls10[c].maskUrl
         done == IF slot = "tex" THEN calls10[c].texDone ELSE calls10[c].maskDone
         other == IF slot = "tex" THEN calls10[c].maskDone ELSE calls10[c].texDone
     IN  /\ asset10[url].fate = "load"
         /\ ~done
         /\ IF other THEN AfterLoads10(c)
            ELSE /\ calls10' = [calls10 EXCEPT ![c].texDone = @ \/ slot = "tex",
                                              ![c].maskDone = @ \/ slot = "mask"]
                 /\ UNCHANGED <<cache10, extracts10>>
  /\ UNCHANGED <<opts10, asset10, loads10, budget10, othersV10>>

\* img.onerror fires for one of the two images of call c: Promise.all
\* rejects, and so does load()
Img10Error(c, slot) ==
  /\ c \in 1..Len(calls10)
  /\ calls10[c].pc = "await"
  /\ LET url == IF slot = "tex" THEN calls10[c].texUrl ELSE calls10[c].maskUrl
     IN  /\ asset10[url].fate = "error"
         /\ calls10' = [calls10 EXCEPT ![c].pc = "rejected",
                                       ![c].error = "Failed to load image: " \o url]
  /\ UNCHANGED <<opts10, asset10, cache10, loads10, extracts10, budget10, othersV10>>

\* the instance right after new ShapeExtractor(opts)
FreshV10 ==
  /\ cache10 = [k \in Keys10 |-> NoRes10]
  /\ calls10 = <<>>
  /\ loads10 = [u \in Urls10 |-> 0]
  /\ extracts10 = [k \in Keys10 |-> 0]

\* the machine is not part of the run
IdleV10 ==
  /\ opts10 = Ctor10(NoOpts10)
  /\ asset10 = [u \in Urls10 |-> Texture10]
  /\ budget10 = 0
  /\ FreshV10

NextV10 ==
  \/ \E t \in TexUrls10, m \in MaskUrls10 : Load10(t, m)
  \/ \E c \in 1..MaxCalls + 1, slot \in {"tex", "mask"} : Img10Load(c, slot)
  \/ \E c \in 1..MaxCalls + 1, slot \in {"tex", "mask"} : Img10Error(c, slot)

(***************************************************************************)
(* shape-extract.js dbg-v1 / dbg-v2-crop: the environment.                 *)
(***************************************************************************)
RevsDbg == {"dbg-v1", "dbg-v2-crop"}

UrlsDbg == {"s.png", "k.png"}

\* An asset.  fate: what the Image element does after img.src is set.  iw, ih:
\* naturalWidth/naturalHeight.  tainted: getImageData throws on a canvas the
\* image was drawn to.  solid: the share of solid cells of the analysis grid,
\* in per mille.  segs: the number of marching-squares segments.  loopLen: the
\* length of the longest loop of more than 8 points (0: no such loop).
\* simpLen: the length of what rdpSimplify makes of that loop.
GoodAssetDbg ==
  [fate |-> "load", iw |-> 64, ih |-> 64, tainted |-> FALSE,
   solid |-> 500, segs |-> 200, loopLen |-> 200, simpLen |-> 40]

\* maskImg = null
NoAssetDbg == [GoodAssetDbg EXCEPT !.fate = "none"]

\* the lengths rdpSimplify leaves, around the defaults of minVerts and maxVerts
SimpLens == {9, 12, 13, 40, 64, 65, 129, 200}

AssetsDbg ==
  { [GoodAssetDbg EXCEPT !.fate = "error"],
    [GoodAssetDbg EXCEPT !.fate = "never"],
    [GoodAssetDbg EXCEPT !.iw = 0],
    [GoodAssetDbg EXCEPT !.tainted = TRUE],
    \* fully transparent
    [GoodAssetDbg EXCEPT !.solid = 0, !.segs = 0, !.loopLen = 0, !.simpLen = 0],
    \* a speck
    [GoodAssetDbg EXCEPT !.solid = 10, !.segs = 12, !.loopLen = 12, !.simpLen = 12],
    [GoodAssetDbg EXCEPT !.solid = 25, !.segs = 8, !.loopLen = 0, !.simpLen = 0],
    \* open chains of at most 8 points
    [GoodAssetDbg EXCEPT !.solid = 25, !.segs = 12, !.loopLen = 0, !.simpLen = 0] }
  \cup {[GoodAssetDbg EXCEPT !.simpLen = n] : n \in SimpLens}

\* the masks of the runs
MasksDbg ==
  { [GoodAssetDbg EXCEPT !.simpLen = 13],
    [GoodAssetDbg EXCEPT !.fate = "error"],
    [GoodAssetDbg EXCEPT !.fate = "never"] }

\* the options object; Undef: the option is not given, NoPath: no URL
DefaultOptsDbg ==
  [srcUrl |-> "s.png", maskUrl |-> NoPath, maxVerts |-> Undef, minVerts |-> Undef,
   minSolidRatio |-> Undef]

OptsDbg ==
  { [DefaultOptsDbg EXCEPT !.maskUrl = "k.png"],
    [DefaultOptsDbg EXCEPT !.srcUrl = NoPath],
    [DefaultOptsDbg EXCEPT !.minSolidRatio = 0] }
  \cup {[DefaultOptsDbg EXCEPT !.maxVerts = m, !.minVerts = n] :
          m \in {Undef, 1, 12, 13, 20, 100}, n \in {Undef, 3, 20}}

DefaultMaxVertsDbg == 64
DefaultMinVertsDbg == 12
\* 0.02, in per mille
DefaultMinSolidRatio == 20
MinSegs == 10

(***************************************************************************)
(* shape-extract.js dbg-v1 / dbg-v2-crop: extractShape().                  *)
(***************************************************************************)
\* { ok, meta, verts, logger, srcImg }: hasVerts: verts is not null; nVerts:
\* verts.length; fallback, reason, used: the fields of meta ("": used is null)
ResDbg(ok, n, fallback, reason, used) ==
  [ok |-> ok, hasVerts |-> n > 0, nVerts |-> n, fallback |-> fallback, reason |-> reason,
   used |-> used]

\* the value of a call that has not returned
NoResDbg == ResDbg(FALSE, 0, FALSE, "", "")

\* return { ok: true, meta, verts: null, logger, srcImg } after
\* meta.fallback = true; meta.reason = reason
FallbackDbg(reason, used) == ResDbg(TRUE, 0, TRUE, reason, used)

\* `too empty solidRatio=${meta.solidRatio.toFixed(3)}`, the ratio in per mille
TooEmptyReason(p) ==
  "too empty solidRatio=0." \o (IF p < 10 THEN "00" ELSE IF p < 100 THEN "0" ELSE "") \o ToString(p)

\* the clamp of the vertex count left out
CapDbgNoClamp(len, maxVerts) == len

\* // clamp vertex count: the length of pts after it, for maxVerts >= 1
CapDbg(len, maxVerts) ==
  IF len > maxVerts
  THEN LET step == (len + maxVerts - 1) \div maxVerts
       IN  Cardinality({i \in 0..(len - 1) : i % step = 0})
  ELSE len

\* the second try block of extractShape: from getBinaryFromImage (dbg-v1) or
\* makeBinaryFromImages (dbg-v2-crop) to the return, the catch included
PipelineDbg(r, o, src, mask) ==
  LET img == IF mask = NoAssetDbg THEN src ELSE mask
      used == IF mask = NoAssetDbg THEN "src" ELSE "mask"
      sized == IF r = "dbg-v1" THEN img ELSE src
      n == CapDbg(img.simpLen, Nullish(o.maxVerts, DefaultMaxVertsDbg))
  IN  IF sized.iw = 0 \/ sized.ih = 0
      THEN FallbackDbg("extract exception: " \o
                       (IF r = "dbg-v1" THEN "invalid image size" ELSE "invalid src image size"), used)
      ELSE IF img.tainted
      THEN FallbackDbg("extract exception: " \o SecurityError.message, used)
      ELSE IF (r = "dbg-v2-crop" /\ img.solid = 0)
              \/ img.solid < Nullish(o.minSolidRatio, DefaultMinSolidRatio)
      THEN FallbackDbg(TooEmptyReason(img.solid), used)
      ELSE IF img.segs < MinSegs THEN FallbackDbg("contour too short", used)
      ELSE IF img.loopLen = 0 THEN FallbackDbg("no loop built", used)
      ELSE IF n < Nullish(o.minVerts, DefaultMinVertsDbg)
      THEN FallbackDbg("verts too few: " \o ToString(n), used)
      ELSE ResDbg(TRUE, n, FALSE, "-", used)

\* the catch of the first try block: the texture did not load
TexFailDbg(message) == ResDbg(FALSE, 0, TRUE, "texture load fail: " \o message, "")

\* a call of extractShape: pc: "tex"/"mask": awaiting that image; timer: the
\* setTimeout of withTimeout that is pending; maskFailed: the logger got
\* "mask load failed -> use src alpha"
CallDbg(o, pc) ==
  [opts |-> o, pc |-> pc, timer |-> "none", maskFailed |-> FALSE, res |-> NoResDbg,
   error |-> ""]

\* loadImage without its timer
WithTimeoutNoTimer(call, label) == call

\* withTimeout(promise, ms, label): the timer is set when the load starts
WithTimeout(call, label) == [call EXCEPT !.timer = label]

\* the call returns res; .finally(() => clearTimeout(t)) ran for its last load
ReturnDbg(c, res) ==
  callsDbg' = [callsDbg EXCEPT ![c].pc = "done", ![c].timer = "none", ![c].res = res]

\* a caller invokes ShapeExtract.extract(options): up to the first await
ExtractShape(o) ==
  /\ Len(callsDbg) < budgetDbg
  /\ callsDbg' = Append(callsDbg,
       IF o.srcUrl = NoPath
       THEN [CallDbg(o, "rejected") EXCEPT !.error = "srcUrl is required"]
       ELSE WithTimeout(CallDbg(o, "tex"), "tex"))
  /\ UNCHANGED <<revDbg, assetDbg, budgetDbg, othersDbg>>

\* img.onload of the texture: the mask load starts, or the pipeline runs
TexLoad(c) ==
  /\ c \in 1..Len(callsDbg)
  /\ callsDbg[c].pc = "tex"
  /\ assetDbg[callsDbg[c].opts.srcUrl].fate = "load"
  /\ IF callsDbg[c].opts.maskUrl = NoPath
     THEN ReturnDbg(c, PipelineDbg(revDbg, callsDbg[c].opts, assetDbg[callsDbg[c].opts.srcUrl], NoAssetDbg))
     ELSE callsDbg' = [callsDbg EXCEPT ![c] = WithTimeout([@ EXCEPT !.pc = "mask", !.timer = "none"], "mask")]
  /\ UNCHANGED <<revDbg, assetDbg, budgetDbg, othersDbg>>

\* img.onerror of the texture
TexError(c) ==
  /\ c \in 1..Len(callsDbg)
  /\ callsDbg[c].pc = "tex"
  /\ assetDbg[callsDbg[c].opts.srcUrl].fate = "error"
  /\ ReturnDbg(c, TexFailDbg("img load error: " \o callsDbg[c].opts.srcUrl))
  /\ UNCHANGED <<revDbg, assetDbg, budgetDbg, othersDbg>>

\* the timer of the texture load fires first
TexTimeout(c) ==
  /\ c \in 1..Len(callsDbg)
  /\ callsDbg[c].pc = "tex"
  /\ callsDbg[c].timer = "tex"
  /\ ReturnDbg(c, TexFailDbg("timeout:loadImage " \o callsDbg[c].opts.srcUrl))
  /\ UNCHANGED <<revDbg, assetDbg, budgetDbg, othersDbg>>

\* img.onload of the mask
MaskLoad(c) ==
  /\ c \in 1..Len(callsDbg)
  /\ callsDbg[c].pc = "mask"
  /\ assetDbg[callsDbg[c].opts.maskUrl].fate = "load"
  /\ ReturnDbg(c, PipelineDbg(revDbg, callsDbg[c].opts, assetDbg[callsDbg[c].opts.srcUrl],
                              assetDbg[callsDbg[c].opts.maskUrl]))
  /\ UNCHANGED <<revDbg, assetDbg, budgetDbg, othersDbg>>

\* the inner catch: maskImg = null, and the pipeline runs on the texture
MaskFailed(c) ==
  callsDbg' = [callsDbg EXCEPT ![c].pc = "done", ![c].timer = "none", ![c].maskFailed = TRUE,
                 ![c].res = PipelineDbg(revDbg, callsDbg[c].opts, assetDbg[callsDbg[c].opts.srcUrl], NoAssetDbg)]

\* img.onerror of the mask
MaskError(c) ==
  /\ c \in 1..Len(callsDbg)
  /\ callsDbg[c].pc = "mask"
  /\ assetDbg[callsDbg[c].opts.maskUrl].fate = "error"
  /\ MaskFailed(c)
  /\ UNCHANGED <<revDbg, assetDbg, budgetDbg, othersDbg>>

\* the timer of the mask load fires first
MaskTimeout(c) ==
  /\ c \in 1..Len(callsDbg)
  /\ callsDbg[c].pc = "mask"
  /\ callsDbg[c].timer = "mask"
  /\ MaskFailed(c)
  /\ UNCHANGED <<revDbg, assetDbg, budgetDbg, othersDbg>>

\* the machine is not part of the run
IdleDbg ==
  /\ revDbg = "dbg-v1"
  /\ assetDbg = [u \in UrlsDbg |-> GoodAssetDbg]
  /\ callsDbg = <<>>
  /\ budgetDbg = 0

NextDbg ==
  \/ \E o \in OptsDbg : ExtractShape(o)
  \/ \E c \in 1..MaxCalls : TexLoad(c)
  \/ \E c \in 1..MaxCalls : TexError(c)
  \/ \E c \in 1..MaxCalls : TexTimeout(c)
  \/ \E c \in 1..MaxCalls : MaskLoad(c)
  \/ \E c \in 1..MaxCalls : MaskError(c)
  \/ \E c \in 1..MaxCalls : MaskTimeout(c)

(***************************************************************************)
(* towerbattle.js: spawnNext().                                            *)
(***************************************************************************)
SrcsTB == {"cat.png", "dog.png"}

\* verticesFromImage rejects: its ctx.getImageData threw a SecurityError
Throws == 0 - 2

\* An animal of assets.json.  traced: the length of the array
\* verticesFromImage(img, cfg) resolves with (0: it resolves with null;
\* Throws: it rejects).
Animal(src, traced) == [src |-> src, traced |-> traced]

\* the lists of the runs: no animal, one, two
AnimalLists ==
  {<<>>}
  \cup {<<Animal("cat.png", n)>> : n \in {0, 6, 8, 40, Throws}}
  \cup {<<Animal("cat.png", n), Animal("dog.png", 40)>> : n \in {0, 40}}

\* verts && verts.length >= 8
MinVertsTB == 8

NoBodyTB == [shape |-> "none", isStatic |-> FALSE, src |-> ""]

\* a call of spawnNext; verts: the length of verts (0: null, Undef: not
\* there yet)
SpawnCall(src, makeStatic, pc) ==
  [src |-> src, makeStatic |-> makeStatic, pc |-> pc, verts |-> Undef, body |-> NoBodyTB,
   error |-> ""]

\* spawnNext from `let body;` to its end, for the call record `call` and the
\* vertex list of length verts; fv is what Bodies.fromVertices does when it
\* is called.  A falsy body makes Body.setPosition throw.
PlaceBody(call, verts, fv) ==
  IF verts >= MinVertsTB
  THEN IF fv = "body"
       THEN [call EXCEPT !.pc = "done", !.verts = verts,
                         !.body = [shape |-> "poly", isStatic |-> call.makeStatic, src |-> call.src]]
       ELSE [call EXCEPT !.pc = "rejected", !.verts = verts,
                         !.error = IF fv = "throws" THEN "fromVertices threw"
                                   ELSE "TypeError: Body.setPosition of a falsy body"]
  ELSE [call EXCEPT !.pc = "done", !.verts = verts,
                    !.body = [shape |-> "rect", isStatic |-> call.makeStatic, src |-> call.src]]

\* this.active = body; ...; World.add(this.world, body), when the call got there
Placed(call) ==
  /\ active' = IF call.pc = "done" THEN call.body ELSE active
  /\ world' = IF call.pc = "done" THEN world + 1 ELSE world

\* a caller invokes spawnNext(makeStatic): up to `await verticesFromImage`, or
\* to the end when the vertices are in one of the caches
SpawnNext(makeStatic, fv) ==
  /\ Len(spawns) < budgetTB
  /\ IF Len(animals) = 0
     THEN /\ spawns' = Append(spawns, [SpawnCall("", makeStatic, "rejected")
                                         EXCEPT !.error = "No animals in assets.json"])
          /\ UNCHANGED <<animalIndex, verticesCache, active, world>>
     ELSE LET a == animals[(animalIndex % Len(animals)) + 1]
              call == SpawnCall(a.src, makeStatic, "await")
          IN  /\ animalIndex' = animalIndex + 1
              /\ IF verticesCache[a.src] > 0
                 THEN /\ spawns' = Append(spawns, PlaceBody(call, verticesCache[a.src], fv))
                      /\ Placed(PlaceBody(call, verticesCache[a.src], fv))
                      /\ UNCHANGED verticesCache
                 ELSE IF localStore[a.src] >= MinVertsTB
                 THEN /\ spawns' = Append(spawns, PlaceBody(call, localStore[a.src], fv))
                      /\ Placed(PlaceBody(call, localStore[a.src], fv))
                      /\ verticesCache' = [verticesCache EXCEPT ![a.src] = localStore[a.src]]
                 ELSE /\ spawns' = Append(spawns, call)
                      /\ UNCHANGED <<verticesCache, active, world>>
  /\ UNCHANGED <<animals, localStore, budgetTB, othersTB>>

\* verticesFromImage resolves for call c: spawnNext runs on to its end
SpawnTraced(c, fv) ==
  /\ c \in 1..Len(spawns)
  /\ spawns[c].pc = "await"
  /\ LET src == spawns[c].src
         verts == (CHOOSE a \in {animals[i] : i \in 1..Len(animals)} : a.src = src).traced
     IN  /\ verts # Throws
         /\ localStore' = IF verts >= MinVertsTB THEN [localStore EXCEPT ![src] = verts]
                          ELSE localStore
         /\ verticesCache' = [verticesCache EXCEPT ![src] = verts]
         /\ spawns' = [spawns EXCEPT ![c] = PlaceBody(@, verts, fv)]
         /\ Placed(PlaceBody(spawns[c], verts, fv))
  /\ UNCHANGED <<animals, animalIndex, budgetTB, othersTB>>

\* verticesFromImage rejects for call c: the await in spawnNext throws and
\* spawnNext, which has no try/catch around it, rejects
SpawnTraceThrows(c) ==
  /\ c \in 1..Len(spawns)
  /\ spawns[c].pc = "await"
  /\ (CHOOSE a \in {animals[i] : i \in 1..Len(animals)} : a.src = spawns[c].src).traced = Throws
  /\ spawns' = [spawns EXCEPT ![c].pc = "rejected", ![c].error = SecurityError.str]
  /\ UNCHANGED <<animals, animalIndex, verticesCache, localStore, active, world, budgetTB, othersTB>>

\* the game right after start() ran prepareSprites and buildBounds
FreshTB ==
  /\ animalIndex = 0
  /\ verticesCache = [s \in SrcsTB |-> Undef]
  /\ spawns = <<>>
  /\ active = NoBodyTB
  /\ world = 0

\* the machine is not part of the run
IdleTB ==
  /\ animals = <<>>
  /\ localStore = [s \in SrcsTB |-> 0]
  /\ budgetTB = 0
  /\ FreshTB

NextTB ==
  \/ \E makeStatic \in BOOLEAN, fv \in FromVerticesOutcomes : SpawnNext(makeStatic, fv)
  \/ \E c \in 1..MaxCalls, fv \in FromVerticesOutcomes : SpawnTraced(c, fv)
  \/ \E c \in 1..MaxCalls : SpawnTraceThrows(c)

(***************************************************************************)
(* The pure functions.  fnIn holds the arguments, an action applies one    *)
(* function to them and leaves its result in fnOut.                        *)
(***************************************************************************)
\* nothing was returned yet
NoFnOut == [kind |-> "none"]

\* the machine is not part of the run
IdleFn == fnIn = NoFnOut /\ fnOp = "" /\ fnOut = NoFnOut

\* the function named op returns out
Returns(op, out) ==
  /\ fnOp = ""
  /\ fnOp' = op
  /\ fnOut' = out
  /\ UNCHANGED <<fnIn, othersFn>>

(***************************************************************************)
(* The binarizers: the loops that turn the alpha bytes into the mask.      *)
(***************************************************************************)
\* getBinaryFromImage (dbg-v1), makeBinaryFromImages (dbg-v2-crop)
SolidDbg(a, alphaThreshold, invert) ==
  LET v == a >= alphaThreshold
  IN  IF invert THEN ~v ELSE v

\* the mask loops of extract (v7, v8), #extract (v10) and verticesFromImage
SolidGt(a, thr) == a > thr

\* an alpha byte, a threshold, the invert option
AlphaInputs ==
  [kind : {"alpha"}, a : {0, 1, 7, 8, 9, 15, 16, 17, 254, 255}, thr : {0, 1, 8, 16, 254, 255},
   invert : BOOLEAN]

BinarizeDbg(r) ==
  /\ fnIn.kind = "alpha"
  /\ r \in RevsDbg
  /\ Returns(r, [kind |-> "bit", solid |-> SolidDbg(fnIn.a, fnIn.thr, fnIn.invert)])

BinarizeGt(r) ==
  /\ fnIn.kind = "alpha"
  /\ ~fnIn.invert
  /\ r \in {"v7", "v8", "v10", "outline", "outline-0"}
  /\ Returns(r, [kind |-> "bit", solid |-> SolidGt(fnIn.a, fnIn.thr)])

NextAlpha ==
  \/ \E r \in RevsDbg : BinarizeDbg(r)
  \/ \E r \in {"v7", "v8", "v10", "outline", "outline-0"} : BinarizeGt(r)

(***************************************************************************)
(* largestComponent (v7 / v8).  A mask is the set of the indexes i of the  *)
(* Uint8Array with mask[i] = 1; the pixel (x, y) has index y * W + x.      *)
(***************************************************************************)
\* the widest and the highest grid the function is applied to
CompW == 3
CompH == 3

\* const neigh = [-1, 1, -W, W, -W-1, -W+1, W-1, W+1]
Neigh(W) == <<0 - 1, 1, 0 - W, W, 0 - W - 1, 0 - W + 1, W - 1, W + 1>>

\* the neighbour loop without the row-wrap guards
ReachNoGuard(mask, W, H, p) ==
  {n \in {p + Neigh(W)[k] : k \in 1..8} : n >= 0 /\ n < W * H /\ n \in mask}

\* for(const d of neigh): the solid cells the loop reaches from p
Reach(mask, W, H, p) ==
  LET x == p - (p \div W) * W
      ds == {d \in {Neigh(W)[k] : k \in 1..8} :
               /\ p + d >= 0 /\ p + d < W * H
               /\ ~(d \in {0 - 1, 0 - W - 1, W - 1} /\ x = 0)
               /\ ~(d \in {1, 0 - W + 1, W + 1} /\ x = W - 1)}
  IN  {n \in {p + d : d \in ds} : n \in mask}

\* while(q.length): the cells visited from the frontier on; mask holds the
\* solid cells not marked in vis before this fill
RECURSIVE Flood(_, _, _, _, _)
Flood(mask, W, H, seen, frontier) ==
  IF frontier = {} THEN seen
  ELSE LET new == UNION {Reach(mask, W, H, p) : p \in frontier} \ seen
       IN  Flood(mask, W, H, seen \cup new, new)

\* for(let i=0;i<W*H;i++): st holds vis, comps, bestCount, bestIdxs
RECURSIVE ScanComps(_, _, _, _, _)
ScanComps(mask, W, H, i, st) ==
  IF i >= W * H THEN st
  ELSE IF i \notin mask \/ i \in st.vis THEN ScanComps(mask, W, H, i + 1, st)
  ELSE LET idxs == Flood(mask \ st.vis, W, H, {i}, {i})
           better == Cardinality(idxs) > st.bestCount
       IN  ScanComps(mask, W, H, i + 1,
             [vis |-> st.vis \cup idxs, comps |-> st.comps + 1,
              bestCount |-> IF better THEN Cardinality(idxs) ELSE st.bestCount,
              bestIdxs |-> IF better THEN idxs ELSE st.bestIdxs])

\* largestComponent(mask, W, H): { out, comps, bestCount }
LargestComponent(mask, W, H) ==
  LET st == ScanComps(mask, W, H, 0, [vis |-> {}, comps |-> 0, bestCount |-> 0, bestIdxs |-> {}])
  IN  [kind |-> "comp", out |-> st.bestIdxs, comps |-> st.comps, bestCount |-> st.bestCount]

\* every grid of CompW columns and 2..CompH rows
CompInputs ==
  UNION {[kind : {"mask"}, W : {CompW}, H : {h}, mask : SUBSET (0..(CompW * h - 1))] : h \in 2..CompH}

ApplyLargestComponent ==
  /\ fnIn.kind = "mask"
  /\ Returns("largestComponent", LargestComponent(fnIn.mask, fnIn.W, fnIn.H))

(***************************************************************************)
(* polygonArea and the winding fix (v7 / v8 extract, verticesFromImage).   *)
(* A polygon is a sequence of points <<x, y>> with integer coordinates.    *)
(***************************************************************************)
\* the most vertices of a polygon the fix is applied to
MaxPoly == 4

PolyCoords == {0 - 1, 0, 1}

\* pts.reverse()
Reverse(s) == [i \in 1..Len(s) |-> s[Len(s) + 1 - i]]

\* polygonArea(pts): the sum a of the loop, i.e. twice the value returned
PolygonArea(pts) ==
  LET n == Len(pts)
      Term(i) == LET p == pts[i]
                     q == pts[(i % n) + 1]
                 IN  p[1] * q[2] - q[1] * p[2]
      Sum[i \in 0..n] == IF i = 0 THEN 0 ELSE Sum[i - 1] + Term(i)
  IN  Sum[n]

\* a fix that reverses the polygons of negative area
FixWindingWhenNegative(pts) == IF PolygonArea(pts) < 0 THEN Reverse(pts) ELSE pts

\* if(polygonArea(pts)>0) pts.reverse();
FixWinding(pts) == IF PolygonArea(pts) > 0 THEN Reverse(pts) ELSE pts

PolyInputs ==
  UNION {[kind : {"poly"}, pts : [1..n -> PolyCoords \X PolyCoords]] : n \in 3..MaxPoly}

ApplyFixWinding ==
  /\ fnIn.kind = "poly"
  /\ Returns("fixWinding", [kind |-> "poly", pts |-> FixWinding(fnIn.pts)])

(***************************************************************************)
(* buildBoundary and traceMoore (v7 / v8; inline in the first outline      *)
(* revision).  A mask or a boundary map is the set of its pixels <<x, y>>   *)
(* set to 1.                                                               *)
(***************************************************************************)
\* the width and the height of the grids that are traced
TraceN == 7

\* buildBoundary(mask, W, H): the solid pixels off the border rows and
\* columns with an empty 4-neighbour, and the top-left-most of them
BuildBoundary(mask, W, H) ==
  LET B == {p \in mask :
              /\ p[1] >= 1 /\ p[1] < W - 1 /\ p[2] >= 1 /\ p[2] < H - 1
              /\ \/ <<p[1] - 1, p[2]>> \notin mask
                 \/ <<p[1] + 1, p[2]>> \notin mask
                 \/ <<p[1], p[2] - 1>> \notin mask
                 \/ <<p[1], p[2] + 1>> \notin mask}
  IN  [boundary |-> B,
       start |-> IF B = {} THEN NoPoint
                 ELSE CHOOSE p \in B : \A q \in B : p[2] < q[2] \/ (p[2] = q[2] /\ p[1] <= q[1])]

\* const safety = W*H*10 (v7, v8), w*h*8 (first outline revision);
\* const limit = w*h*6 (outline.js)
Safety(r, W, H) ==
  IF r = "outline-0" THEN W * H * 8 ELSE IF r = "outline" THEN W * H * 6 ELSE W * H * 10

\* where the scan of the neighbours starts: (bi+1+k)%8 in traceMoore,
\* (bi + 6 + i) % 8 in outline.js
ScanFrom(r) == IF r = "outline" THEN 6 ELSE 1

\* one pass of the do-while of the trace; off: where the scan starts; t holds
\* x,y (cur), bx,by (back), the contour and steps; t.done: the loop was left
MooreStep(boundary, W, H, start, safety, off, t) ==
  IF t.done THEN t
  ELSE
    LET out1 == Append(t.out, t.cur)
        bi == DirIndex(t.back, t.cur)
        hits == {k \in 0..7 :
                   LET n == Step(t.cur, (bi + off + k) % 8)
                   IN  /\ ~(n[1] < 0 \/ n[1] >= W \/ n[2] < 0 \/ n[2] >= H)
                       /\ n \in boundary}
        k0 == CHOOSE k \in hits : \A m \in hits : k <= m
        idx == (bi + off + k0) % 8
        next == Step(t.cur, idx)
    IN  IF hits = {} THEN [t EXCEPT !.out = out1, !.done = TRUE]
        ELSE [cur |-> next, back |-> Step(t.cur, (idx + 7) % 8), out |-> out1,
              steps |-> t.steps + 1,
              done |-> (t.steps + 1 > safety) \/ next = start]

\* 2^k passes of the do-while
RECURSIVE MooreLoop(_, _, _, _, _, _, _, _)
MooreLoop(boundary, W, H, start, safety, off, t, k) ==
  IF k = 0 THEN MooreStep(boundary, W, H, start, safety, off, t)
  ELSE CHOOSE r \in {MooreLoop(boundary, W, H, start, safety, off, a, k - 1) :
                       a \in {MooreLoop(boundary, W, H, start, safety, off, t, k - 1)}} : TRUE

\* traceMoore(boundary, W, H, sx, sy) of revision r, and the do-while of
\* verticesFromImage of outline.js on its mask: the loop is left after at most
\* safety + 1 passes, and 2^k passes cover them
TraceMoore(r, boundary, W, H, s) ==
  LET safety == Safety(r, W, H)
      k == CHOOSE j \in 0..30 : 2^j > safety + 1 /\ (j = 0 \/ 2^(j - 1) <= safety + 1)
  IN  MooreLoop(boundary, W, H, s, safety, ScanFrom(r),
                [cur |-> s, back |-> <<s[1] - 1, s[2]>>, out |-> <<>>, steps |-> 0, done |-> FALSE],
                k).out

\* the filled rectangles of at least 3 x 3 pixels that keep off the border
\* of a TraceN x TraceN grid
RegionInputs ==
  {i \in {[kind |-> "region", W |-> TraceN, H |-> TraceN, x0 |-> x0, y0 |-> y0, x1 |-> x1, y1 |-> y1,
           mask |-> Rect(x0, y0, x1, y1)] :
            x0 \in 1..(TraceN - 4), x1 \in 3..(TraceN - 2),
            y0 \in 1..(TraceN - 4), y1 \in 3..(TraceN - 2)} :
     i.x1 >= i.x0 + 2 /\ i.y1 >= i.y0 + 2}

RevsMoore == {"v7", "v8", "outline-0"}

\* buildBoundary, then traceMoore from its start pixel
TraceRegion(r) ==
  /\ fnIn.kind = "region"
  /\ LET b == BuildBoundary(fnIn.mask, fnIn.W, fnIn.H)
     IN  /\ b.start # NoPoint
         /\ Returns(r, [kind |-> "contour", boundary |-> b.boundary, start |-> b.start,
                        pts |-> TraceMoore(r, b.boundary, fnIn.W, fnIn.H, b.start)])

NextMoore == \E r \in RevsMoore : TraceRegion(r)

(***************************************************************************)
(* The contour traced for a mask with a blob and a speck: #findBoundaryStart*)
(* and #traceBoundary of v10, the mask scan and the trace of outline.js.   *)
(***************************************************************************)
\* the width and the height of the masks with a speck
SpeckN == 8

\* a blob of 4 x 4 pixels and one pixel that does not touch it
SpeckInputs ==
  {i \in {[kind |-> "speck", W |-> SpeckN, H |-> SpeckN, blob |-> Rect(b, b, b + 3, b + 3),
           speck |-> s, mask |-> Rect(b, b, b + 3, b + 3) \cup {s}] :
            b \in 1..(SpeckN - 5), s \in (0..(SpeckN - 1)) \X (0..(SpeckN - 1))} :
     \A p \in i.blob : \/ p[1] - i.speck[1] \notin {0 - 1, 0, 1}
                       \/ p[2] - i.speck[2] \notin {0 - 1, 0, 1}}

\* the pixel whose centre #traceBoundary pushed
PixelOf(c) == <<(c[1] - 1) \div 2, (c[2] - 1) \div 2>>

\* v10 #extract: const start = this.#findBoundaryStart(...); const raw =
\* this.#traceBoundary(...)
TraceV10 ==
  /\ fnIn.kind = "speck"
  /\ LET start == FindBoundaryStart(fnIn.mask, fnIn.W, fnIn.H)
         raw == TraceBoundary(fnIn.mask, fnIn.W, fnIn.H, start)
     IN  /\ start # NoPoint
         /\ Returns("v10", [kind |-> "trace", pixels |-> [i \in 1..Len(raw) |-> PixelOf(raw[i])]])

\* the first solid pixel of the row-major scan of verticesFromImage
FirstSolid(mask) ==
  CHOOSE p \in mask : \A q \in mask : p[2] < q[2] \/ (p[2] = q[2] /\ p[1] <= q[1])

\* while(x>0 && mask[y*w + (x-1)] === 1) x--;
RECURSIVE MoveLeft(_, _)
MoveLeft(mask, p) ==
  IF p[1] > 0 /\ <<p[1] - 1, p[2]>> \in mask THEN MoveLeft(mask, <<p[1] - 1, p[2]>>) ELSE p

\* verticesFromImage (outline.js) from the mask to the contour
TraceOutline ==
  /\ fnIn.kind = "speck"
  /\ fnIn.mask # {}
  /\ LET start == MoveLeft(fnIn.mask, FirstSolid(fnIn.mask))
     IN  Returns("outline", [kind |-> "trace",
                             pixels |-> TraceMoore("outline", fnIn.mask, fnIn.W, fnIn.H, start)])

NextSpeck == TraceV10 \/ TraceOutline

(***************************************************************************)
(* verticesFromImage (outline.js) from the mask on, with rdpSimplify and   *)
(* limitVertices of util.js.  Points are in half pixels of the canvas; the *)
(* factor invScale, which multiplies every coordinate and every tolerance  *)
(* alike, is left out.                                                     *)
(***************************************************************************)
\* the width and the height of the canvas: Math.max(8, ...)
CanvasN == 8

\* cfg.PHYSICS?.outlineSimplifyEpsilon ?? 2.2, outlineMaxVertices ?? 90
OutlineEps == [num |-> 11, den |-> 5]
OutlineMaxV == 90
\* dedupeClose(pts, 0.8 * invScale)
OutlineMinDist == [num |-> 4, den |-> 5]
\* if (contour.length < 12) return null;
MinContourOutline == 12

\* rdpSimplify: d2, the squared distance of p to the segment a b
SegDist2(p, a, b) ==
  LET dx == b[1] - a[1]
      dy == b[2] - a[2]
      len2 == IF dx * dx + dy * dy = 0 THEN 1 ELSE dx * dx + dy * dy
      dot == (p[1] - a[1]) * dx + (p[2] - a[2]) * dy
  IN  IF dot < 0 THEN Frac(Dist2(p, a), 1)
      ELSE IF dot > len2 THEN Frac(Dist2(p, b), 1)
      ELSE Frac(Dist2(p, a) * len2 - dot * dot, len2)

RECURSIVE RdpKeep(_, _, _, _)
\* rdpSimplify with stack.push([a, idx]) only
RdpKeepLeftOnly(points, a, b, sqEps) ==
  LET I == (a + 1)..(b - 1)
      d == [i \in I |-> SegDist2(points[i], points[a], points[b])]
      best == {i \in I : /\ FracGt(d[i], Frac(0, 1))
                         /\ \A j \in I : ~FracGt(d[j], d[i])
                         /\ \A j \in I : j < i => FracGt(d[i], d[j])}
  IN  IF best = {} THEN {}
      ELSE LET idx == CHOOSE i \in best : TRUE
           IN  IF FracGt(d[idx], sqEps)
               THEN {idx} \cup RdpKeep(points, a, idx, sqEps)
               ELSE {}

\* rdpSimplify: the indexes kept strictly between a and b
RdpKeep(points, a, b, sqEps) ==
  LET I == (a + 1)..(b - 1)
      d == [i \in I |-> SegDist2(points[i], points[a], points[b])]
      best == {i \in I : /\ FracGt(d[i], Frac(0, 1))
                         /\ \A j \in I : ~FracGt(d[j], d[i])
                         /\ \A j \in I : j < i => FracGt(d[i], d[j])}
  IN  IF best = {} THEN {}
      ELSE LET idx == CHOOSE i \in best : TRUE
           IN  IF FracGt(d[idx], sqEps)
               THEN {idx} \cup RdpKeep(points, a, idx, sqEps) \cup RdpKeep(points, idx, b, sqEps)
               ELSE {}

\* the elements of seq at the indexes of keep, in order
RECURSIVE Kept(_, _, _)
Kept(seq, keep, i) ==
  IF i > Len(seq) THEN <<>>
  ELSE (IF i \in keep THEN <<seq[i]>> ELSE <<>>) \o Kept(seq, keep, i + 1)

\* rdpSimplify(points, epsilon)
RdpSimplify(points, eps) ==
  IF Len(points) < 3 THEN points
  ELSE Kept(points, {1, Len(points)} \cup RdpKeep(points, 1, Len(points), EpsSq(eps)), 1)

\* the point sequences given to rdpSimplify: 3 to MaxRdp points of a small
\* grid (repeated points and closed sequences included), epsilon 1/4 or 1/2
MaxRdp == 4

RdpInputs ==
  [kind : {"points"},
   points : UNION {[1..n -> (0..2) \X (0..1)] : n \in 3..MaxRdp},
   eps : {[num |-> 1, den |-> 4], [num |-> 1, den |-> 2]}]

\* rdpSimplify(points, epsilon): keep, the array returned, and the array
\* passed as it is after the call
ApplyRdpSimplify ==
  /\ fnIn.kind = "points"
  /\ Returns("rdpSimplify",
             [kind |-> "simplified",
              keep |-> {1, Len(fnIn.points)}
                         \cup RdpKeep(fnIn.points, 1, Len(fnIn.points), EpsSq(fnIn.eps)),
              out |-> RdpSimplify(fnIn.points, fnIn.eps),
              points |-> fnIn.points])

\* limitVertices(points, max)
LimitVertices(points, max) ==
  IF Len(points) <= max THEN points
  ELSE [i \in 1..max |-> points[((i - 1) * Len(points)) \div max + 1]]

\* the for loop of dedupeClose from pts[i] on
RECURSIVE DedupeFrom(_, _, _, _)
DedupeFrom(pts, i, out, md2) ==
  IF i > Len(pts) THEN out
  ELSE IF out = <<>> \/ ~FracGt(md2, Frac(Dist2(pts[i], out[Len(out)]), 1))
       THEN DedupeFrom(pts, i + 1, Append(out, pts[i]), md2)
       ELSE DedupeFrom(pts, i + 1, out, md2)

\* dedupeClose(pts, minDist)
DedupeClose(pts, minDist) ==
  LET md2 == EpsSq(minDist)
      out == DedupeFrom(pts, 1, <<>>, md2)
  IN  IF Len(out) > 3 /\ FracGt(md2, Frac(Dist2(out[1], out[Len(out)]), 1))
      THEN SubSeq(out, 1, Len(out) - 1)
      ELSE out

\* let pts = contour.map(p => ({x: (p.x - cx) * invScale, ...})), cx = w / 2
CentreOnCanvas(contour, w, h) ==
  [i \in 1..Len(contour) |-> <<2 * contour[i][1] - w, 2 * contour[i][2] - h>>]

\* verticesFromImage from `if (!found) return null` on
VerticesOf(mask, w, h) ==
  IF mask = {} THEN [kind |-> "verts", null |-> TRUE, pts |-> <<>>]
  ELSE LET contour == TraceMoore("outline", mask, w, h, MoveLeft(mask, FirstSolid(mask)))
       IN  IF Len(contour) < MinContourOutline THEN [kind |-> "verts", null |-> TRUE, pts |-> <<>>]
           ELSE [kind |-> "verts", null |-> FALSE,
                 pts |-> FixWinding(DedupeClose(LimitVertices(RdpSimplify(
                           CentreOnCanvas(contour, w, h), OutlineEps), OutlineMaxV), OutlineMinDist))]

\* the masks: every filled rectangle of at least 4 x 4 pixels on the canvas
CanvasInputs ==
  {i \in {[kind |-> "canvas", W |-> CanvasN, H |-> CanvasN, x0 |-> x0, y0 |-> y0, x1 |-> x1, y1 |-> y1,
           mask |-> Rect(x0, y0, x1, y1)] :
            x0 \in 0..(CanvasN - 1), x1 \in 0..(CanvasN - 1),
            y0 \in 0..(CanvasN - 1), y1 \in 0..(CanvasN - 1)} :
     i.x1 >= i.x0 + 3 /\ i.y1 >= i.y0 + 3}

VerticesFromImage ==
  /\ fnIn.kind = "canvas"
  /\ Returns("verticesFromImage", VerticesOf(fnIn.mask, fnIn.W, fnIn.H))

(***************************************************************************)
(* Extraction of a fully opaque square sprite of n x n pixels: extract of  *)
(* v7 / v8 and #extract of v10.                                            *)
(***************************************************************************)
\* the side of the largest square sprite
MaxSquare == 15
SquareSides == 11..MaxSquare

\* const analysisMax = cfg.analysisMax ?? 420 (v8: 460)
AnalysisMax(r) == IF r = "v7" THEN 420 ELSE 460

\* W and H of the analysis canvas for a crop of n x n pixels with
\* 10 * n <= analysisMax, where s = Math.min(10.0, ...) is 10
AnalysisSide(n) == IF 10 * n > 96 THEN 10 * n ELSE 96

\* the asset record of an opaque n x n sprite as extract of v7 / v8 sees it:
\* every pixel of the base canvas and of the analysis canvas is solid; the
\* contour and the edge points are what buildBoundary, traceMoore and
\* collectEdgePoints (step 1) give for the full mask; the hull of the edge
\* points of a rectangle is its 4 corners
OpaqueSquare(r, n) ==
  LET N == AnalysisSide(n)
      full == Rect(0, 0, N - 1, N - 1)
      b == BuildBoundary(full, N, N)
  IN  [GoodImage EXCEPT !.iw = n, !.ih = n, !.faint = 0, !.opaque = n * n,
                        !.aFaint = 0, !.aOpaque = N * N, !.bw = n, !.bh = n,
                        !.contourLen = IF b.start = NoPoint THEN 0
                                       ELSE Len(TraceMoore(r, b.boundary, N, N, b.start)),
                        !.edgePts = Cardinality(b.boundary),
                        !.hullLen = IF Cardinality(b.boundary) >= 3 THEN 4 ELSE 0]

SquareInputs ==
  [kind : {"square"}, n : SquareSides, thr : {Undef, 0, 8, 16, 100, 254}]

\* the result of an extraction: ok, reason, and the number of vertices
SquareRes(ok, reason, nVerts) == [kind |-> "extraction", ok |-> ok, reason |-> reason, nVerts |-> nVerts]

\* ShapeExtract.extract (v7 / v8) of the sprite, Matter.Vertices.hull present
ExtractSquare(r) ==
  /\ fnIn.kind = "square"
  /\ 10 * fnIn.n <= AnalysisMax(r)
  /\ LET out == PixelWork(r, "full", "a.png", OpaqueSquare(r, fnIn.n),
                          [DefaultCfg EXCEPT !.alphaThreshold = fnIn.thr])
     IN  Returns(r, SquareRes(out.ok, out.reason, out.pts))

\* ShapeExtractor.#extract (v10) of the sprite
ExtractSquare10 ==
  /\ fnIn.kind = "square"
  /\ LET res == Extract10(Asset(fnIn.n, fnIn.n, Rect(0, 0, fnIn.n - 1, fnIn.n - 1)), fnIn.n, fnIn.n,
                          Ctor10([NoOpts10 EXCEPT !.alphaThreshold = fnIn.thr]))
     IN  Returns("v10", SquareRes(res.ok, res.reason, res.nVerts))

NextSquare == (\E r \in {"v7", "v8"} : ExtractSquare(r)) \/ ExtractSquare10

(***************************************************************************)
(* shape-extract.js dbg-v1 / dbg-v2-crop: the geometry of extractShape,    *)
(* from the binary grid to meta.spriteOffset.  The image has the size of   *)
(* the grid (sx = sy = 1).  A contour point is <<x, y>> in half pixels.    *)
(***************************************************************************)
\* dw and dh: Math.max(16, Math.round(iw * scale))
GridN == 16

\* one pass of dilate(bin, w, h, iters): 8-neighbourhood, the pixel included
DilateOnce(bin, w, h) ==
  {p \in (0..(w - 1)) \X (0..(h - 1)) :
     \E q \in bin : p[1] - q[1] \in {0 - 1, 0, 1} /\ p[2] - q[2] \in {0 - 1, 0, 1}}

RECURSIVE Dilate(_, _, _, _)
Dilate(bin, w, h, iters) ==
  IF iters <= 0 THEN bin ELSE Dilate(DilateOnce(bin, w, h), w, h, iters - 1)

\* MS_TABLE[idx]
MsTable(idx) ==
  CASE idx = 1 -> << <<"top", "left">> >>
    [] idx = 2 -> << <<"right", "top">> >>
    [] idx = 3 -> << <<"right", "left">> >>
    [] idx = 4 -> << <<"bottom", "right">> >>
    [] idx = 5 -> << <<"top", "left">>, <<"bottom", "right">> >>
    [] idx = 6 -> << <<"bottom", "top">> >>
    [] idx = 7 -> << <<"bottom", "left">> >>
    [] idx = 8 -> << <<"left", "bottom">> >>
    [] idx = 9 -> << <<"top", "bottom">> >>
    [] idx = 10 -> << <<"left", "top">>, <<"right", "bottom">> >>
    [] idx = 11 -> << <<"right", "bottom">> >>
    [] idx = 12 -> << <<"left", "right">> >>
    [] idx = 13 -> << <<"top", "right">> >>
    [] idx = 14 -> << <<"left", "top">> >>
    [] OTHER -> <<>>

\* edgePoint(edge, x, y)
EdgePoint(edge, x, y) ==
  CASE edge = "left" -> <<2 * x, 2 * y + 1>>
    [] edge = "right" -> <<2 * x + 2, 2 * y + 1>>
    [] edge = "top" -> <<2 * x + 1, 2 * y>>
    [] edge = "bottom" -> <<2 * x + 1, 2 * y + 2>>
    [] OTHER -> <<2 * x + 1, 2 * y + 1>>

\* the segments pushed for the cell (x, y)
CellSegs(bin, x, y) ==
  LET idx == (IF <<x, y>> \in bin THEN 1 ELSE 0) + (IF <<x + 1, y>> \in bin THEN 2 ELSE 0)
               + (IF <<x + 1, y + 1>> \in bin THEN 4 ELSE 0) + (IF <<x, y + 1>> \in bin THEN 8 ELSE 0)
      pairs == MsTable(idx)
  IN  [i \in 1..Len(pairs) |-> <<EdgePoint(pairs[i][1], x, y), EdgePoint(pairs[i][2], x, y)>>]

\* segs after the two for loops over the (w-1) x (h-1) cells
MarchingSquares(bin, w, h) ==
  LET Row(y) ==
        LET Upto[x \in 0..(w - 1)] ==
              IF x = 0 THEN <<>> ELSE Upto[x - 1] \o CellSegs(bin, x - 1, y)
        IN  Upto[w - 1]
      Rows[y \in 0..(h - 1)] == IF y = 0 THEN <<>> ELSE Rows[y - 1] \o Row(y - 1)
  IN  Rows[h - 1]

\* the indexes of a finite set of numbers in increasing order
RECURSIVE Sorted(_)
Sorted(S) ==
  IF S = {} THEN <<>>
  ELSE LET m == CHOOSE x \in S : \A y \in S : x <= y IN <<m>> \o Sorted(S \ {m})

\* adj.get(keyPt(p)) after `for (const [a, b] of segs) addEdge(a, b)`
Neighbors(segs, p) ==
  LET ks == Sorted({k \in 1..Len(segs) : segs[k][1] = p \/ segs[k][2] = p})
  IN  [i \in 1..Len(ks) |-> IF segs[ks[i]][1] = p THEN segs[ks[i]][2] ELSE segs[ks[i]][1]]

\* for (let guard = 0; guard < 20000; guard++)
WalkGuard == 20000

\* one pass of the walk that started at a; t holds loop, curr, prev (NoPoint:
\* null), visited and guard; t.done: the for loop was left
WalkStep(adj, a, t) ==
  IF t.done THEN t
  ELSE IF ~(t.guard < WalkGuard) THEN [t EXCEPT !.done = TRUE]
  ELSE
    LET loop1 == Append(t.loop, t.curr)
        nb == adj[t.curr]
        others == {i \in 1..Len(nb) : nb[i] # t.prev}
        next == IF t.prev # NoPoint /\ Len(nb) > 1 /\ others # {}
                THEN nb[CHOOSE i \in others : \A j \in others : i <= j]
                ELSE nb[1]
    IN  IF Len(nb) = 0 THEN [t EXCEPT !.loop = loop1, !.done = TRUE]
        ELSE [loop |-> loop1, curr |-> next, prev |-> t.curr,
              visited |-> t.visited \cup {<<t.curr, next>>},
              guard |-> t.guard + 1, done |-> next = a]

\* 2^k passes of the walk
RECURSIVE WalkLoop(_, _, _, _)
WalkLoop(adj, a, t, k) ==
  IF k = 0 THEN WalkStep(adj, a, t)
  ELSE CHOOSE r \in {WalkLoop(adj, a, u, k - 1) : u \in {WalkLoop(adj, a, t, k - 1)}} : TRUE

\* the walk from the segment [a, b]: a walk over points of degree 1 or 2
\* comes back to a within twice the number of segments, and 2^k passes cover
\* that
Walk(adj, nSegs, a, visited) ==
  LET k == CHOOSE j \in 0..30 : 2^j > 2 * nSegs + 2 /\ (j = 0 \/ 2^(j - 1) <= 2 * nSegs + 2)
  IN  WalkLoop(adj, a, [loop |-> <<>>, curr |-> a, prev |-> NoPoint, visited |-> visited,
                        guard |-> 0, done |-> FALSE], k)

\* if (loop.length > 8) loops.push(loop)
MinLoop == 8

\* the second `for (const [a, b] of segs)` from segs[k] on; s holds visited
\* and loops
RECURSIVE WalkAll(_, _, _, _)
WalkAll(segs, adj, k, s) ==
  IF k > Len(segs) THEN s
  ELSE IF <<segs[k][1], segs[k][2]>> \in s.visited \/ <<segs[k][2], segs[k][1]>> \in s.visited
       THEN WalkAll(segs, adj, k + 1, s)
  ELSE LET After(t) == [visited |-> t.visited,
                        loops |-> IF Len(t.loop) > MinLoop THEN Append(s.loops, t.loop)
                                  ELSE s.loops]
       IN  CHOOSE r \in {WalkAll(segs, adj, k + 1, s1) :
                            s1 \in {After(t) : t \in {Walk(adj, Len(segs), segs[k][1], s.visited)}}} :
             TRUE

\* buildContourFromBinary(bin, w, h): loops.sort((p, q) => q.length - p.length)
\* is stable, so loops[0] is the first of the longest loops
BuildContourFromBinary(bin, w, h) ==
  LET Points(segs) == {segs[k][1] : k \in 1..Len(segs)} \cup {segs[k][2] : k \in 1..Len(segs)}
      Longest(loops) ==
        LET best == CHOOSE i \in 1..Len(loops) :
                      /\ \A j \in 1..Len(loops) : Len(loops[j]) <= Len(loops[i])
                      /\ \A j \in 1..(i - 1) : Len(loops[j]) < Len(loops[i])
        IN  IF Len(loops) = 0 THEN [contour |-> <<>>, reason |-> "no loop built"]
            ELSE [contour |-> loops[best], reason |-> "-"]
      Loops(segs) ==
        CHOOSE r \in {WalkAll(segs, adj, 1, [visited |-> {}, loops |-> <<>>]).loops :
                        adj \in {[p \in Points(segs) |-> Neighbors(segs, p)]}} : TRUE
      Built(segs) ==
        IF Len(segs) < MinSegs THEN [contour |-> <<>>, reason |-> "contour too short"]
        ELSE CHOOSE r \in {Longest(loops) : loops \in {Loops(segs)}} : TRUE
  IN  CHOOSE r \in {Built(segs) : segs \in {MarchingSquares(bin, w, h)}} : TRUE

\* function rdp(start, end, out) of rdpSimplify: what it pushes
RECURSIVE RdpDbgRec(_, _, _, _)
RdpDbgRec(points, start, end, epsSq) ==
  LET I == (start + 1)..(end - 1)
      d == [i \in I |-> SegDist2(points[i], points[start], points[end])]
      best == {i \in I : /\ FracGt(d[i], Frac(0, 1))
                         /\ \A j \in I : ~FracGt(d[j], d[i])
                         /\ \A j \in I : j < i => FracGt(d[i], d[j])}
  IN  IF best # {} /\ FracGt(d[CHOOSE i \in best : TRUE], epsSq)
      THEN LET idx == CHOOSE i \in best : TRUE
           IN  RdpDbgRec(points, start, idx, epsSq) \o RdpDbgRec(points, idx, end, epsSq)
      ELSE <<points[start]>>

\* rdpSimplify(points, eps) of the dbg revisions
RdpDbg(points, eps) ==
  IF Len(points) < 6 THEN points
  ELSE Append(RdpDbgRec(points, 1, Len(points), EpsSq(eps)), points[Len(points)])

\* // clamp vertex count
CapPts(pts, maxVerts) ==
  IF Len(pts) > maxVerts
  THEN LET step == (Len(pts) + maxVerts - 1) \div maxVerts
           Pick(keep) == [j \in 1..Len(keep) |-> pts[keep[j] + 1]]
       IN  CHOOSE r \in {Pick(keep) :
                            keep \in {Sorted({i \in 0..(Len(pts) - 1) : i % step = 0})}} : TRUE
  ELSE pts

\* ensureCCW(pts)
EnsureCCW(pts) ==
  LET n == Len(pts)
      Sum[i \in 0..n] ==
        IF i = 0 THEN 0
        ELSE Sum[i - 1] + (pts[(i % n) + 1][1] - pts[i][1]) * (pts[(i % n) + 1][2] + pts[i][2])
  IN  IF Sum[n] > 0 THEN Reverse(pts) ELSE pts

\* polygonAreaCentroid(pts): cx and cy as fractions with a positive
\* denominator.  The coordinates are whole half pixels, so the area is a
\* multiple of 1/8 px^2 and Math.abs(area) < 1e-6 means area = 0.
PolygonAreaCentroid(pts) ==
  LET n == Len(pts)
      A(i) == pts[i][1] * pts[(i % n) + 1][2] - pts[(i % n) + 1][1] * pts[i][2]
      Area[i \in 0..n] == IF i = 0 THEN 0 ELSE Area[i - 1] + A(i)
      CX[i \in 0..n] == IF i = 0 THEN 0 ELSE CX[i - 1] + (pts[i][1] + pts[(i % n) + 1][1]) * A(i)
      CY[i \in 0..n] == IF i = 0 THEN 0 ELSE CY[i - 1] + (pts[i][2] + pts[(i % n) + 1][2]) * A(i)
      SX[i \in 0..n] == IF i = 0 THEN 0 ELSE SX[i - 1] + pts[i][1]
      SY[i \in 0..n] == IF i = 0 THEN 0 ELSE SY[i - 1] + pts[i][2]
      sgn == IF Area[n] < 0 THEN 0 - 1 ELSE 1
  IN  IF Area[n] = 0 THEN [cx |-> Frac(SX[n], n), cy |-> Frac(SY[n], n)]
      ELSE [cx |-> Frac(sgn * CX[n], sgn * 3 * Area[n]), cy |-> Frac(sgn * CY[n], sgn * 3 * Area[n])]

\* the crop of dbg-v2-crop: pad, then x0, y0, cropW, cropH (in pixels)
CropDbg(bin, iw, ih) ==
  LET minX == CHOOSE x \in {p[1] : p \in bin} : \A p \in bin : x <= p[1]
      maxX == CHOOSE x \in {p[1] : p \in bin} : \A p \in bin : x >= p[1]
      minY == CHOOSE y \in {p[2] : p \in bin} : \A p \in bin : y <= p[2]
      maxY == CHOOSE y \in {p[2] : p \in bin} : \A p \in bin : y >= p[2]
      size == IF maxX - minX > maxY - minY THEN maxX + 1 - minX ELSE maxY + 1 - minY
      round == (size * 6 + 50) \div 100
      pad == IF round < 2 THEN 2 ELSE IF round > 24 THEN 24 ELSE round
      x0 == IF minX - pad < 0 THEN 0 ELSE minX - pad
      y0 == IF minY - pad < 0 THEN 0 ELSE minY - pad
      x1 == IF maxX + 1 + pad > iw THEN iw ELSE maxX + 1 + pad
      y1 == IF maxY + 1 + pad > ih THEN ih ELSE maxY + 1 + pad
  IN  [x0 |-> x0, y0 |-> y0, cropW |-> IF x1 - x0 < 2 THEN 2 ELSE x1 - x0,
       cropH |-> IF y1 - y0 < 2 THEN 2 ELSE y1 - y0]

\* the result of the geometry: fallback and reason of meta, the vertices
\* before they are centred, meta.spriteOffset as two fractions
ShapeDbg(fallback, reason, pts, ox, oy) ==
  [kind |-> "shape", fallback |-> fallback, reason |-> reason, pts |-> pts, ox |-> ox, oy |-> oy]

NoShapeDbg(reason) == ShapeDbg(TRUE, reason, <<>>, Frac(1, 2), Frac(1, 2))

\* extractShape of revision r from the binary grid on; o: dilateIters,
\* maxVerts, minVerts, minSolidRatio
GeometryDbg(r, grid, o) ==
  LET w == GridN
      h == GridN
      Offsets(crop, pts) ==
        LET c == PolygonAreaCentroid(pts)
        IN  ShapeDbg(FALSE, "-", pts,
                     Frac(c.cx.n, c.cx.d * 2 * crop.cropW), Frac(c.cy.n, c.cy.d * 2 * crop.cropH))
      Capped(crop, pts) ==
        IF Len(pts) < Nullish(o.minVerts, DefaultMinVertsDbg) THEN NoShapeDbg("verts too few")
        ELSE CHOOSE s \in {Offsets(crop, q) : q \in {EnsureCCW(pts)}} : TRUE
      Simplified(crop, pts) ==
        CHOOSE s \in {Capped(crop, q) :
                        q \in {CapPts(pts, Nullish(o.maxVerts, DefaultMaxVertsDbg))}} : TRUE
      Moved(crop, pts) ==
        LET big == IF crop.cropW > crop.cropH THEN crop.cropW ELSE crop.cropH
        IN  CHOOSE s \in {Simplified(crop, q) : q \in {RdpDbg(pts, [num |-> big, den |-> 100])}} : TRUE
      Contour(crop, built) ==
        IF built.contour = <<>> THEN NoShapeDbg(built.reason)
        ELSE CHOOSE s \in {Moved(crop, q) :
                             q \in {[i \in 1..Len(built.contour) |->
                                        <<built.contour[i][1] - 2 * crop.x0,
                                          built.contour[i][2] - 2 * crop.y0>>]}} : TRUE
      Cropped(bin, crop) ==
        CHOOSE s \in {Contour(crop, built) : built \in {BuildContourFromBinary(bin, w, h)}} : TRUE
      Binary(bin) ==
        IF (r = "dbg-v2-crop" /\ bin = {})
           \/ Cardinality(bin) * 1000 < Nullish(o.minSolidRatio, DefaultMinSolidRatio) * w * h
        THEN NoShapeDbg("too empty")
        ELSE CHOOSE s \in {Cropped(bin, crop) :
                             crop \in {IF r = "dbg-v1"
                                        THEN [x0 |-> 0, y0 |-> 0, cropW |-> w, cropH |-> h]
                                        ELSE CropDbg(bin, w, h)}} : TRUE
  IN  CHOOSE s \in {Binary(bin) : bin \in {Dilate(grid, w, h, Nullish(o.dilateIters, 1))}} : TRUE

\* the pixels of the grid within the disc of centre c and squared radius r2
Disc(c, r2) ==
  {p \in (0..(GridN - 1)) \X (0..(GridN - 1)) : Sq(p[1] - c[1]) + Sq(p[2] - c[2]) <= r2}

\* the grids: a disc of radius 3 at several places, one of them against the
\* left border; the options of the call
GridInputs ==
  [kind : {"grid"},
   grid : {Disc(<<x, y>>, 9) : x \in {3, 8, 11}, y \in {6, 8}},
   o : [dilateIters : {Undef, 0}, maxVerts : {Undef, 14, 16}, minVerts : {Undef},
        minSolidRatio : {Undef}]]

ExtractGeometry(r) ==
  /\ fnIn.kind = "grid"
  /\ r \in RevsDbg
  /\ Returns(r, GeometryDbg(r, fnIn.grid, fnIn.o))

NextGrid == \E r \in RevsDbg : ExtractGeometry(r)

\* buildContourFromBinary(binary.bin, binary.dw, binary.dh) of revision r on
\* the dilated grid, with the segments it emitted
BuildContour(r) ==
  /\ fnIn.kind = "grid"
  /\ r \in RevsDbg
  /\ LET Built(bin) ==
           [kind |-> "built", segs |-> MarchingSquares(bin, GridN, GridN),
            contour |-> BuildContourFromBinary(bin, GridN, GridN).contour]
     IN  \E res \in {Built(bin) :
                        bin \in {Dilate(fnIn.grid, GridN, GridN, Nullish(fnIn.o.dilateIters, 1))}} :
           Returns(r, res)

NextContour == \E r \in RevsDbg : BuildContour(r)

(***************************************************************************)
(* ShapeExtractor.#traceBoundary (v10) pass by pass: fnOut.t holds the     *)
(* variables of the walk after each pass of the while loop.                *)
(***************************************************************************)
StepW == 3
StepH == 3

\* the masks: every non-empty set of pixels of the grid
StepInputs ==
  [kind : {"steps"}, solid : (SUBSET ((0..(StepW - 1)) \X (0..(StepH - 1)))) \ {{}}]

\* #traceBoundary is called with the pixel #findBoundaryStart returned
BeginTrace ==
  /\ fnIn.kind = "steps"
  /\ Returns("traceBoundary",
             [kind |-> "walk", t |-> TraceVars(FindBoundaryStart(fnIn.solid, StepW, StepH))])

\* one pass of the while loop
PassTrace ==
  /\ fnOp = "traceBoundary"
  /\ fnOut.kind = "walk"
  /\ ~fnOut.t.done
  /\ fnOut' = [fnOut EXCEPT
                 !.t = TraceStep(fnIn.solid, StepW, StepH,
                                 FindBoundaryStart(fnIn.solid, StepW, StepH), fnOut.t)]
  /\ UNCHANGED <<fnIn, fnOp, othersFn>>

NextSteps == BeginTrace \/ PassTrace

(***************************************************************************)
(* The Moore walks on a region pinched at its start pixel: two lobes below *)
(* the apex, one to its left and one to its right, joined only through it. *)
(***************************************************************************)
PinchN == 7

\* a lobe hanging from the apex a on side s (-1: left, 1: right): a diagonal
\* of one or two pixels, or a block of 2 x 2 pixels
Lobes(a, s) ==
  { {<<a[1] + s, a[2] + 1>>},
    {<<a[1] + s, a[2] + 1>>, <<a[1] + 2 * s, a[2] + 2>>},
    {<<a[1] + s * i, a[2] + j>> : i \in 1..2, j \in 1..2} }

PinchAt(a) ==
  {[kind |-> "pinch", W |-> PinchN, H |-> PinchN, apex |-> a, left |-> l, right |-> r,
    mask |-> {a} \cup l \cup r] : l \in Lobes(a, 0 - 1), r \in Lobes(a, 1)}

\* the apex keeps the lobes off the border of the PinchN x PinchN grid
PinchInputs == UNION {PinchAt(a) : a \in (3..(PinchN - 4)) \X (1..(PinchN - 4))}

RevsPinch == RevsMoore \cup {"outline"}

\* traceMoore of revision r on the boundary buildBoundary returns (v7, v8,
\* first outline revision); the walk of verticesFromImage on its mask, from
\* the first solid pixel moved left (outline.js)
TracePinch(r) ==
  /\ fnIn.kind = "pinch"
  /\ IF r = "outline"
     THEN LET start == MoveLeft(fnIn.mask, FirstSolid(fnIn.mask))
          IN  Returns(r, [kind |-> "walked", start |-> start,
                          pts |-> TraceMoore(r, fnIn.mask, fnIn.W, fnIn.H, start)])
     ELSE LET b == BuildBoundary(fnIn.mask, fnIn.W, fnIn.H)
          IN  /\ b.start # NoPoint
              /\ Returns(r, [kind |-> "walked", start |-> b.start,
                             pts |-> TraceMoore(r, b.boundary, fnIn.W, fnIn.H, b.start)])

NextPinch == \E r \in RevsPinch : TracePinch(r)

(***************************************************************************)
(* The distance of a point to a chord as the RDP implementations compute  *)
(* it: #perpDist (v10), the loop body of rdpSimplify (util) and distToSeg *)
(* (dbg-v1, dbg-v2-crop).  Distances are squared.                          *)
(***************************************************************************)
ChordN == 3

ChordInputs ==
  [kind : {"chord"}, p : (0..(ChordN - 1)) \X (0..(ChordN - 1)),
   a : (0..(ChordN - 1)) \X (0..(ChordN - 1)), b : (0..(ChordN - 1)) \X (0..(ChordN - 1))]

\* this.#perpDist(p, a, b)
ApplyPerpDist ==
  /\ fnIn.kind = "chord"
  /\ Returns("perpDist", [kind |-> "dist", d |-> PerpDist(fnIn.p, fnIn.a, fnIn.b)])

\* d2 of rdpSimplify (util); distToSeg(p, a, b) of the dbg revisions, which
\* clamps t the same way
ApplySegDist(r) ==
  /\ fnIn.kind = "chord"
  /\ Returns(r, [kind |-> "dist", d |-> SegDist2(fnIn.p, fnIn.a, fnIn.b)])

NextChord == ApplyPerpDist \/ \E r \in {"rdpSimplify"} \cup RevsDbg : ApplySegDist(r)

(***************************************************************************)
(* towerbattle.js: start(), drop(), gameOver(), loop() and the timer of    *)
(* drop().  spawnNext() has no suspension point an event can interleave    *)
(* with (verticesFromImage is an async function without an await of its    *)
(* own, so spawnNext resumes in a microtask); start() is suspended only    *)
(* while prepareSprites() waits for an image.                              *)
(***************************************************************************)
NumAnimals == 2

MaxPlays == 4

AnimalsG == 1..NumAnimals

RemoveAt(s, i) == [j \in 1..(Len(s) - 1) |-> IF j < i THEN s[j] ELSE s[j + 1]]

\* spawnNext(true): the new static body becomes this.active and goes
\* into the world this.world names at that moment
SpawnStatic(base, by, game) ==
  base \cup {[id |-> nextIdG, isStatic |-> TRUE, by |-> by, game |-> game]}

\* prepareSprites: the first animal whose image is missing (0: none)
MissingSprite(loaded) ==
  IF AnimalsG \subseteq loaded THEN 0
  ELSE CHOOSE a \in AnimalsG \ loaded : \A b \in AnimalsG \ loaded : a <= b

\* start() from `this.buildBounds()` on: spawnNext(true), running = true
FinishStart(base, game) ==
  /\ bodiesG' = SpawnStatic(base, "start", game)
  /\ activeG' = nextIdG
  /\ nextIdG' = nextIdG + 1
  /\ runningG' = TRUE

\* start(): the part up to the first image prepareSprites has to wait for
StartCall ==
  /\ budgetG > 0
  /\ budgetG' = budgetG - 1
  /\ engineG' = engineG + 1
  /\ IF MissingSprite(spriteMapG) = 0
       THEN /\ FinishStart({}, engineG + 1)
            /\ UNCHANGED startsG
       ELSE /\ runningG' = FALSE
            /\ bodiesG' = {}
            /\ startsG' = Append(startsG, [game |-> engineG + 1, waits |-> MissingSprite(spriteMapG)])
            /\ UNCHANGED <<activeG, nextIdG>>
  /\ UNCHANGED <<timersG, spriteMapG, othersG>>

\* img.onload of a loadImage a suspended start() waits for
ImageLoaded(i) ==
  /\ i \in 1..Len(startsG)
  /\ spriteMapG' = spriteMapG \cup {startsG[i].waits}
  /\ IF MissingSprite(spriteMapG') = 0
       THEN /\ FinishStart(bodiesG, startsG[i].game)
            /\ startsG' = RemoveAt(startsG, i)
       ELSE /\ startsG' = [startsG EXCEPT ![i].waits = MissingSprite(spriteMapG')]
            /\ UNCHANGED <<runningG, bodiesG, activeG, nextIdG>>
  /\ UNCHANGED <<engineG, timersG, budgetG, othersG>>

\* drop()
Drop ==
  /\ budgetG > 0
  /\ budgetG' = budgetG - 1
  /\ IF runningG /\ \E b \in bodiesG : b.id = activeG /\ b.isStatic
       THEN /\ bodiesG' = {IF b.id = activeG THEN [b EXCEPT !.isStatic = FALSE] ELSE b : b \in bodiesG}
            /\ timersG' = Append(timersG, engineG)
       ELSE UNCHANGED <<bodiesG, timersG>>
  /\ UNCHANGED <<runningG, engineG, activeG, nextIdG, startsG, spriteMapG, othersG>>

\* the callback of the 120 ms timer of drop()
TimerFires(i) ==
  /\ i \in 1..Len(timersG)
  /\ timersG' = RemoveAt(timersG, i)
  /\ IF runningG
       THEN /\ bodiesG' = SpawnStatic(bodiesG, "timer", timersG[i])
            /\ activeG' = nextIdG
            /\ nextIdG' = nextIdG + 1
       ELSE UNCHANGED <<bodiesG, activeG, nextIdG>>
  /\ UNCHANGED <<runningG, engineG, startsG, spriteMapG, budgetG, othersG>>

\* loop(): a dropped animal fell off the platform, gameOver()
GameOver ==
  /\ runningG
  /\ \E b \in bodiesG : ~b.isStatic
  /\ runningG' = FALSE
  /\ UNCHANGED <<engineG, bodiesG, activeG, nextIdG, timersG, startsG, spriteMapG, budgetG, othersG>>

NextG ==
  \/ StartCall
  \/ \E i \in 1..MaxPlays : ImageLoaded(i)
  \/ Drop
  \/ \E i \in 1..MaxPlays : TimerFires(i)
  \/ GameOver

FreshG ==
  /\ runningG = FALSE
  /\ engineG = 0
  /\ bodiesG = {}
  /\ activeG = 0
  /\ nextIdG = 1
  /\ timersG = <<>>
  /\ startsG = <<>>

IdleG == FreshG /\ spriteMapG = {} /\ budgetG = 0

(***************************************************************************)
(* bar-proto/game.js.  window.BAR_DATA is not part of the sources: its     *)
(* MAX_DAYS is a bound of the model and its start values are drawn from a  *)
(* small set of gauges within [0,100].  The controls of a mini-game exist  *)
(* only while its markup is in ui.miniBody.                                *)
(***************************************************************************)
MAX_DAYS == 3

SupplyCols == 6

\* the sums of dark tax a committed route can have (0..54), a few of them
Taxes == {0, 12, 19, 40}

StartGauges == {0, 6, 98}

clamp(n, a, b) == IF n < a THEN a ELSE IF n > b THEN b ELSE n

\* Math.round of a tenth / a hundredth (the sums of Taxes give no tie)
RoundTenths(n) == (n + 5) \div 10

RoundHundredths(n) == (n + 50) \div 100

winCheckOnLastDay(s) ==
  IF s.fear <= 0 /\ s.sup <= 0 /\ s.cur <= 0
    THEN [S |-> [s EXCEPT !.phase = "end"], ending |-> "victory", ended |-> TRUE]
  ELSE IF s.day >= MAX_DAYS
    THEN [S |-> [s EXCEPT !.phase = "end"], ending |-> "defeat", ended |-> TRUE]
  ELSE [S |-> s, ending |-> "", ended |-> FALSE]

\* winCheck() on the state s: the state it leaves, the ending it wrote
\* into ui.miniTitle ("": none) and its return value
winCheck(s) ==
  IF s.fear <= 0 /\ s.sup <= 0 /\ s.cur <= 0
    THEN [S |-> [s EXCEPT !.phase = "end"], ending |-> "victory", ended |-> TRUE]
  ELSE IF s.day > MAX_DAYS
    THEN [S |-> [s EXCEPT !.phase = "end"], ending |-> "defeat", ended |-> TRUE]
  ELSE [S |-> s, ending |-> "", ended |-> FALSE]

\* endAction(summaryHtml) after the handler has changed S to s
endAction(s) ==
  /\ SBar' = winCheck([s EXCEPT !.phase = "after"]).S
  /\ endingBar' = winCheck([s EXCEPT !.phase = "after"]).ending
  /\ miniBar' = ""
  /\ picksBar' = 0
  /\ doneBar' = doneBar + 1
  /\ actionsBar' = actionsBar + 1
  /\ UNCHANGED <<dataBar, othersBar>>

nextDayWhileChoosing ==
  /\ SBar.phase \in {"after", "choose"}
  /\ SBar' = IF winCheck([SBar EXCEPT !.day = SBar.day + 1]).ended
            THEN winCheck([SBar EXCEPT !.day = SBar.day + 1]).S
            ELSE [SBar EXCEPT !.day = SBar.day + 1, !.phase = "choose"]
  /\ endingBar' = winCheck([SBar EXCEPT !.day = SBar.day + 1]).ending
  /\ miniBar' = ""
  /\ picksBar' = 0
  /\ doneBar' = 0
  /\ UNCHANGED <<actionsBar, dataBar, othersBar>>

\* ui.nextDay.onclick: nextDay()
nextDay ==
  /\ SBar.phase = "after"
  /\ SBar' = IF winCheck([SBar EXCEPT !.day = SBar.day + 1]).ended
            THEN winCheck([SBar EXCEPT !.day = SBar.day + 1]).S
            ELSE [SBar EXCEPT !.day = SBar.day + 1, !.phase = "choose"]
  /\ endingBar' = winCheck([SBar EXCEPT !.day = SBar.day + 1]).ending
  /\ miniBar' = ""
  /\ picksBar' = 0
  /\ doneBar' = 0
  /\ UNCHANGED <<actionsBar, dataBar, othersBar>>

\* ui.aCook / ui.aTalk / ui.aSupply .onclick: startCook / startTalk / startSupply
startMini(m) ==
  /\ SBar.phase = "choose"
  /\ SBar' = [SBar EXCEPT !.phase = "mini"]
  /\ miniBar' = m
  /\ picksBar' = 0
  /\ endingBar' = ""
  /\ UNCHANGED <<doneBar, actionsBar, dataBar, othersBar>>

\* startCook: btn.onclick (STOP)
cookStop(inGreen) ==
  /\ miniBar = "cook"
  /\ endAction([SBar EXCEPT !.cur = clamp(SBar.cur - (IF inGreen THEN 18 ELSE 6), 0, 100),
                         !.gold = SBar.gold + (IF inGreen THEN 12 ELSE 5),
                         !.rep = SBar.rep + (IF inGreen THEN 2 ELSE 0)])

\* startTalk: resolve(choice)
talkResolve(ok) ==
  /\ miniBar = "talk"
  /\ endAction([SBar EXCEPT !.fear = clamp(SBar.fear - (IF ok THEN 18 ELSE 6), 0, 100),
                         !.gold = SBar.gold + (IF ok THEN 6 ELSE 3),
                         !.rep = SBar.rep + (IF ok THEN 3 ELSE 0)])

\* startSupply: d.onclick of a cell of the current column, in an allowed row
supplyPick ==
  /\ miniBar = "supply"
  /\ picksBar < SupplyCols
  /\ picksBar' = picksBar + 1
  /\ UNCHANGED <<SBar, miniBar, endingBar, doneBar, actionsBar, dataBar, othersBar>>

\* startSupply: btnUndo.onclick
supplyUndo ==
  /\ miniBar = "supply"
  /\ picksBar > 0
  /\ picksBar' = picksBar - 1
  /\ UNCHANGED <<SBar, miniBar, endingBar, doneBar, actionsBar, dataBar, othersBar>>

\* startSupply: btnCommit.onclick
supplyCommit(tax) ==
  /\ miniBar = "supply"
  /\ picksBar = SupplyCols
  /\ endAction([SBar EXCEPT !.sup = clamp(SBar.sup - clamp(RoundTenths(200 - 3 * tax), 6, 20), 0, 100),
                         !.gold = clamp(SBar.gold - clamp(RoundHundredths(15 * tax), 0, 12), 0, 999),
                         !.rep = SBar.rep + (IF tax <= 18 THEN 2 ELSE 0)])

\* ui.skip.onclick
skip ==
  /\ SBar.phase = "choose"
  /\ endAction([SBar EXCEPT !.fear = clamp(SBar.fear + 4, 0, 100),
                         !.sup = clamp(SBar.sup + 4, 0, 100),
                         !.cur = clamp(SBar.cur + 4, 0, 100)])

\* const S = {...} at load, and what ui.reset.onclick puts back
StartS(data) ==
  [day |-> 1, gold |-> data.gold, rep |-> data.rep, fear |-> data.fear,
   sup |-> data.sup, cur |-> data.cur, phase |-> "choose"]

\* ui.reset.onclick
reset ==
  /\ SBar' = StartS(dataBar)
  /\ miniBar' = ""
  /\ picksBar' = 0
  /\ doneBar' = 0
  /\ actionsBar' = 0
  /\ endingBar' = ""
  /\ UNCHANGED <<dataBar, othersBar>>

NextBar ==
  \/ \E m \in {"cook", "talk", "supply"} : startMini(m)
  \/ \E inGreen \in BOOLEAN : cookStop(inGreen)
  \/ \E ok \in BOOLEAN : talkResolve(ok)
  \/ supplyPick
  \/ supplyUndo
  \/ \E tax \in Taxes : supplyCommit(tax)
  \/ skip
  \/ nextDay
  \/ reset

BarData == [gold : {5}, rep : {0}, fear : StartGauges, sup : StartGauges, cur : StartGauges]

IdleBar ==
  /\ dataBar = [gold |-> 0, rep |-> 0, fear |-> 0, sup |-> 0, cur |-> 0]
  /\ SBar = StartS(dataBar)
  /\ miniBar = ""
  /\ picksBar = 0
  /\ endingBar = ""
  /\ doneBar = 0
  /\ actionsBar = 0

(***************************************************************************)
(* class Leaderboard (get, getBestScore, qualifies, add).  An entry is its *)
(* score and its timestamp; the sanitized name plays no part in the order. *)
(* The page adds game.getLastScore(), a count of points, never negative.   *)
(***************************************************************************)
MaxEntries == 2

MaxScore == 2

MaxTime == 2

MaxAdds == 4

\* an entry.score that Number() turns into NaN
NaNScore == 0 - 1

ScoreInputs == (0..MaxScore) \cup {NaNScore}

\* Number(entry.score) || 0
ToScore(x) == IF x = NaNScore THEN 0 ELSE x

\* (a, b) => b.score - a.score || a.t - b.t
Compare(a, b) == IF b.score - a.score # 0 THEN b.score - a.score ELSE a.t - b.t

NoSort(arr) == arr

\* arr.sort(compare): stable, an element goes behind those not after it
RECURSIVE SortLb(_)
SortLb(arr) ==
  IF Len(arr) = 0 THEN <<>>
  ELSE LET e == arr[Len(arr)]
           s == SortLb(SubSeq(arr, 1, Len(arr) - 1))
           k == Cardinality({i \in 1..Len(s) : Compare(s[i], e) <= 0})
       IN SubSeq(s, 1, k) \o <<e>> \o SubSeq(s, k + 1, Len(s))

\* arr.slice(0, max)
Slice(arr, max) == SubSeq(arr, 1, IF Len(arr) < max THEN Len(arr) ELSE max)

getBestScore(arr) == IF Len(arr) # 0 THEN arr[1].score ELSE 0

\* qualifies(score) on the stored array arr; NaN compares false
qualifies(arr, score) ==
  IF score = NaNScore THEN FALSE
  ELSE IF Len(arr) < MaxEntries THEN score > 0
  ELSE score > (IF Len(arr) = 0 THEN 0 ELSE arr[Len(arr)].score)

\* add(entry) when Date.now() returns t
add(score, t) ==
  /\ budgetLb > 0
  /\ budgetLb' = budgetLb - 1
  /\ nowLb' = t
  /\ storeLb' = Slice(SortLb(Append(storeLb, [score |-> ToScore(score), t |-> t])), MaxEntries)
  /\ addedLb' = addedLb \cup {ToScore(score)}
  /\ lastAddLb' = [kind |-> "add", score |-> score, before |-> storeLb]
  /\ UNCHANGED othersLb

\* the clock does not go back between two calls
NextLb == \E score \in ScoreInputs, t \in nowLb..MaxTime : add(score, t)

NoAdd == [kind |-> "none"]

FreshLb == storeLb = <<>> /\ nowLb = 0 /\ addedLb = {} /\ lastAddLb = NoAdd

IdleLb == FreshLb /\ budgetLb = 0

(***************************************************************************)
(* The specifications.  Each one runs one machine and leaves the others    *)
(* idle.                                                                   *)
(***************************************************************************)
\* several calls in flight, over few assets
InitPx ==
  /\ rev \in Revs
  /\ Matter = "full"
  /\ image \in [Paths -> LoadingImages]
  /\ callBudget = MaxCalls
  /\ FreshPx
  /\ IdleV10 /\ IdleDbg /\ IdleTB /\ IdleFn /\ IdleG /\ IdleBar /\ IdleLb

SpecPx == InitPx /\ [][NextPx]_vars

\* one call, over every asset and every state of window.Matter
InitPxOne ==
  /\ rev \in Revs
  /\ Matter \in {"none", "nohull", "full"}
  /\ image \in {[p \in Paths |-> IF p = "a.png" THEN i ELSE GoodImage] : i \in Images}
  /\ callBudget = 1
  /\ FreshPx
  /\ IdleV10 /\ IdleDbg /\ IdleTB /\ IdleFn /\ IdleG /\ IdleBar /\ IdleLb

SpecPxOne == InitPxOne /\ [][NextPx]_vars

\* several calls in flight
InitV10 ==
  /\ opts10 = Ctor10(SmallOpts10)
  /\ asset10 \in {[u \in Urls10 |-> IF u = "t.png" THEN t ELSE IF u = "m.png" THEN m ELSE EmptyMask] :
                    t \in {Texture10, [Texture10 EXCEPT !.fate = "error"]},
                    m \in {SquareMask, [SquareMask EXCEPT !.fate = "error"],
                          [SquareMask EXCEPT !.fate = "never"]}}
  /\ budget10 = MaxCalls
  /\ FreshV10
  /\ IdlePx /\ IdleDbg /\ IdleTB /\ IdleFn /\ IdleG /\ IdleBar /\ IdleLb

SpecV10 == InitV10 /\ [][NextV10]_vars

\* one call, over every mask and every opts
InitV10One ==
  /\ opts10 \in {Ctor10(o) : o \in Opts10}
  /\ asset10 \in {[u \in Urls10 |-> IF u = "m.png" THEN m ELSE Texture10] : m \in Masks10}
  /\ budget10 = 1
  /\ FreshV10
  /\ IdlePx /\ IdleDbg /\ IdleTB /\ IdleFn /\ IdleG /\ IdleBar /\ IdleLb

SpecV10One == InitV10One /\ [][NextV10]_vars

\* extractShape: one call, over every asset and every options object
InitDbg ==
  /\ revDbg \in RevsDbg
  /\ assetDbg \in {[u \in UrlsDbg |-> IF u = "s.png" THEN s ELSE k] : s \in AssetsDbg, k \in MasksDbg}
  /\ callsDbg = <<>>
  /\ budgetDbg = 1
  /\ IdlePx /\ IdleV10 /\ IdleTB /\ IdleFn /\ IdleG /\ IdleBar /\ IdleLb

SpecDbg == InitDbg /\ [][NextDbg]_vars

\* a timer that was set fires unless it is cleared, and an image that is going
\* to load or to fail does so
FairDbg ==
  \A c \in 1..MaxCalls :
    /\ WF_vars(TexTimeout(c)) /\ WF_vars(MaskTimeout(c))
    /\ WF_vars(TexLoad(c)) /\ WF_vars(TexError(c))
    /\ WF_vars(MaskLoad(c)) /\ WF_vars(MaskError(c))

FairSpecDbg == InitDbg /\ [][NextDbg]_vars /\ FairDbg

\* spawnNext: calls that may overlap, over every list of animals
InitTB ==
  /\ animals \in AnimalLists
  /\ localStore \in {[s \in SrcsTB |-> IF s = "cat.png" THEN n ELSE 0] : n \in {0, 40}}
  /\ budgetTB = MaxCalls
  /\ FreshTB
  /\ IdlePx /\ IdleV10 /\ IdleDbg /\ IdleFn /\ IdleG /\ IdleBar /\ IdleLb

SpecTB == InitTB /\ [][NextTB]_vars

\* a binarizer applied to one alpha byte
InitAlpha ==
  /\ fnIn \in AlphaInputs
  /\ fnOp = "" /\ fnOut = NoFnOut
  /\ IdlePx /\ IdleV10 /\ IdleDbg /\ IdleTB /\ IdleG /\ IdleBar /\ IdleLb

SpecAlpha == InitAlpha /\ [][NextAlpha]_vars

\* largestComponent applied to one grid
InitComp ==
  /\ fnIn \in CompInputs
  /\ fnOp = "" /\ fnOut = NoFnOut
  /\ IdlePx /\ IdleV10 /\ IdleDbg /\ IdleTB /\ IdleG /\ IdleBar /\ IdleLb

SpecComp == InitComp /\ [][ApplyLargestComponent]_vars

\* the winding fix applied to one polygon
InitPoly ==
  /\ fnIn \in PolyInputs
  /\ fnOp = "" /\ fnOut = NoFnOut
  /\ IdlePx /\ IdleV10 /\ IdleDbg /\ IdleTB /\ IdleG /\ IdleBar /\ IdleLb

SpecPoly == InitPoly /\ [][ApplyFixWinding]_vars

\* traceMoore applied to the boundary of one region
InitMoore ==
  /\ fnIn \in RegionInputs
  /\ fnOp = "" /\ fnOut = NoFnOut
  /\ IdlePx /\ IdleV10 /\ IdleDbg /\ IdleTB /\ IdleG /\ IdleBar /\ IdleLb

SpecMoore == InitMoore /\ [][NextMoore]_vars

\* the traces of one mask with a blob and a speck
InitSpeck ==
  /\ fnIn \in SpeckInputs
  /\ fnOp = "" /\ fnOut = NoFnOut
  /\ IdlePx /\ IdleV10 /\ IdleDbg /\ IdleTB /\ IdleG /\ IdleBar /\ IdleLb

SpecSpeck == InitSpeck /\ [][NextSpeck]_vars

\* verticesFromImage applied to one canvas
InitCanvas ==
  /\ fnIn \in CanvasInputs
  /\ fnOp = "" /\ fnOut = NoFnOut
  /\ IdlePx /\ IdleV10 /\ IdleDbg /\ IdleTB /\ IdleG /\ IdleBar /\ IdleLb

SpecCanvas == InitCanvas /\ [][VerticesFromImage]_vars

\* the extractions of one opaque square sprite
InitSquare ==
  /\ fnIn \in SquareInputs
  /\ fnOp = "" /\ fnOut = NoFnOut
  /\ IdlePx /\ IdleV10 /\ IdleDbg /\ IdleTB /\ IdleG /\ IdleBar /\ IdleLb

SpecSquare == InitSquare /\ [][NextSquare]_vars

\* the geometry of extractShape on one grid
InitGrid ==
  /\ fnIn \in GridInputs
  /\ fnOp = "" /\ fnOut = NoFnOut
  /\ IdlePx /\ IdleV10 /\ IdleDbg /\ IdleTB /\ IdleG /\ IdleBar /\ IdleLb

SpecGrid == InitGrid /\ [][NextGrid]_vars

\* #traceBoundary pass by pass on one mask
InitSteps ==
  /\ fnIn \in StepInputs
  /\ fnOp = "" /\ fnOut = NoFnOut
  /\ IdlePx /\ IdleV10 /\ IdleDbg /\ IdleTB /\ IdleG /\ IdleBar /\ IdleLb

SpecSteps == InitSteps /\ [][NextSteps]_vars

\* the Moore walks on one region pinched at its start pixel
InitPinch ==
  /\ fnIn \in PinchInputs
  /\ fnOp = "" /\ fnOut = NoFnOut
  /\ IdlePx /\ IdleV10 /\ IdleDbg /\ IdleTB /\ IdleG /\ IdleBar /\ IdleLb

SpecPinch == InitPinch /\ [][NextPinch]_vars

\* rdpSimplify applied to one point sequence
InitRdp ==
  /\ fnIn \in RdpInputs
  /\ fnOp = "" /\ fnOut = NoFnOut
  /\ IdlePx /\ IdleV10 /\ IdleDbg /\ IdleTB /\ IdleG /\ IdleBar /\ IdleLb

SpecRdp == InitRdp /\ [][ApplyRdpSimplify]_vars

\* the distance functions applied to one point and one chord
InitChord ==
  /\ fnIn \in ChordInputs
  /\ fnOp = "" /\ fnOut = NoFnOut
  /\ IdlePx /\ IdleV10 /\ IdleDbg /\ IdleTB /\ IdleG /\ IdleBar /\ IdleLb

SpecChord == InitChord /\ [][NextChord]_vars

\* buildContourFromBinary on one grid
SpecContour == InitGrid /\ [][NextContour]_vars

\* a cold page (no image loaded) or a warm one, and a few start() / drop()
InitG ==
  /\ FreshG
  /\ spriteMapG \in {{}, AnimalsG}
  /\ budgetG = MaxPlays
  /\ IdlePx /\ IdleV10 /\ IdleDbg /\ IdleTB /\ IdleFn /\ IdleBar /\ IdleLb

SpecG == InitG /\ [][NextG]_vars

\* a game of the bar, from any of the start gauges
InitBar ==
  /\ dataBar \in BarData
  /\ SBar = StartS(dataBar)
  /\ miniBar = ""
  /\ picksBar = 0
  /\ endingBar = ""
  /\ doneBar = 0
  /\ actionsBar = 0
  /\ IdlePx /\ IdleV10 /\ IdleDbg /\ IdleTB /\ IdleFn /\ IdleG /\ IdleLb

SpecBar == InitBar /\ [][NextBar]_vars

\* a few add() calls on an empty store
InitLb ==
  /\ FreshLb
  /\ budgetLb = MaxAdds
  /\ IdlePx /\ IdleV10 /\ IdleDbg /\ IdleTB /\ IdleFn /\ IdleG /\ IdleBar

SpecLb == InitLb /\ [][NextLb]_vars

\* one run of any one of the machines
InitAny == InitPxOne \/ InitV10One \/ InitDbg \/ InitTB

NextAny == NextPx \/ NextV10 \/ NextDbg \/ NextTB

SpecAny == InitAny /\ [][NextAny]_vars

(***************************************************************************)
(* Properties of extract() and makeBody(), v7 / v8.                        *)
(***************************************************************************)
\* the calls that went through extract()
Extracting == {c \in 1..Len(calls) : calls[c].promise # 0}

\* C1: however concurrent calls of extract() with the same maskPath
\* interleave, the image is loaded at most once per path and the pixel work
\* is started at most once; the promise is in the cache from the call on,
\* settled or not, and every caller of the path gets that same promise.
C1SingleFlight ==
  /\ \A p \in Paths : imgLoads[p] <= 1 /\ pixelRuns[p] <= 1
  /\ \A i \in 1..Len(promises) :
       /\ cache[promises[i].maskPath] = i
       /\ promises[i].settled /\ image[promises[i].maskPath].fate = "load"
            => pixelRuns[promises[i].maskPath] = 1
  /\ \A c \in Extracting : calls[c].promise = cache[calls[c].maskPath]

\* two callers of one path wait on one promise while its image is loading
C1Witness ==
  \E c, d \in Extracting :
    /\ c < d
    /\ calls[c].maskPath = calls[d].maskPath
    /\ calls[c].pc = "await" /\ calls[d].pc = "await"
    /\ calls[c].promise = calls[d].promise
    /\ ~promises[calls[c].promise].settled
    /\ image[calls[c].maskPath].fate = "load"
    /\ imgLoads[calls[c].maskPath] = 1

\* C3: extract() never rejects: whatever the image load and the pixel reads
\* do, a settled promise holds an object with a non-empty reason when ok is
\* false and with at least 12 points when ok is true, and that is what the
\* caller's await delivers.
C3NeverRejects ==
  /\ \A i \in 1..Len(promises) :
       promises[i].settled =>
         /\ ~promises[i].out.ok => promises[i].out.reason # ""
         /\ promises[i].out.ok => "pts" \in promises[i].out.keys /\ promises[i].out.pts >= MinPts
  /\ \A c \in 1..Len(calls) :
       calls[c].kind = "extract" =>
         /\ calls[c].pc # "rejected"
         /\ calls[c].pc = "done" => calls[c].out = promises[calls[c].promise].out

\* a call of extract() returned a failure whose thrown value had no message
C3Witness ==
  \E c \in 1..Len(calls) :
    /\ calls[c].kind = "extract"
    /\ calls[c].pc = "done"
    /\ ~calls[c].out.ok
    /\ image[calls[c].maskPath].cropErr = BareError
    /\ calls[c].out.reason = BareError.str

\* C6: every call of extract() and makeBody() eventually resolves, the load
\* being bounded by a timeout: a promise that has not settled always has an
\* event due that settles it.
C6LoadBounded ==
  \A i \in 1..Len(promises) :
    ~promises[i].settled => ENABLED (ImgLoad(i) \/ ImgError(i))

\* what extract(path, cfg) computes for the asset behind path
OwnResult(path, cfg) ==
  IF image[path].fate = "load" THEN PixelWork(rev, Matter, path, image[path], cfg)
  ELSE LoadErrorOut(path)

\* C7: the cache is keyed by the asset and the configuration: every call
\* returns the result computed under its own cfg.
C7OwnCfg ==
  \A c \in 1..Len(calls) :
    calls[c].pc = "done" => calls[c].out = OwnResult(calls[c].maskPath, calls[c].cfg)

(***************************************************************************)
(* Properties of ShapeExtractor, v10.                                      *)
(***************************************************************************)
\* C2: two calls of load() with the same (texUrl, maskUrl) that overlap share
\* one computation: a call made while a call with its key awaits its images
\* starts no image load and runs no #extract of its own, so #extract runs at
\* most once for a key.
C2SingleFlight ==
  /\ \A c \in 1..Len(calls10) :
       calls10[c].inFlight => ~calls10[c].ownLoads /\ ~calls10[c].ranExtract
  /\ \A k \in Keys10 : extracts10[k] <= 1

(***************************************************************************)
(* Properties of makeBody() (v7 / v8) and of TowerBattle.spawnNext().      *)
(***************************************************************************)
\* C4: makeBody, with Matter loaded, always returns a body, a rectangle with
\* the fallback flag and a non-empty reason when extraction failed or
\* Bodies.fromVertices threw or returned a falsy value, and it never rejects;
\* spawnNext does the same when Bodies.fromVertices rejects the traced
\* vertices: the call is not rejected and a body is placed.
C4AlwaysABody ==
  /\ \A c \in 1..Len(calls) :
       calls[c].kind = "makeBody" /\ Matter # "none" =>
         /\ calls[c].pc # "rejected"
         /\ calls[c].pc = "done" =>
              /\ calls[c].body.shape \in {"poly", "rect"}
              /\ ~calls[c].out.ok => calls[c].body.shape = "rect"
              /\ calls[c].body.shape = "rect" =>
                   calls[c].body.fallback /\ calls[c].body.reason # ""
  /\ \A c \in 1..Len(spawns) :
       spawns[c].verts >= MinVertsTB =>
         /\ spawns[c].pc # "rejected"
         /\ spawns[c].pc = "done" => spawns[c].body.shape \in {"poly", "rect"}

\* C16: when makeBody falls back to the rectangle (extraction failed, or
\* fromVertices threw or returned a falsy value), the side of the rectangle
\* after Body.scale is targetSize * hitInset, and so at most targetSize.
C16RectMatchesTarget ==
  \A c \in 1..Len(calls) :
    calls[c].kind = "makeBody" /\ calls[c].pc = "done" /\ calls[c].body.shape = "rect" =>
      LET ts == Nullish(calls[c].targetSize, DefaultTargetSize)
          inset == Nullish(calls[c].hitInset, DefaultHitInset(rev))
      IN  /\ calls[c].side.n = ts * inset * calls[c].side.d
          /\ calls[c].side.n <= ts * 1000 * calls[c].side.d

(***************************************************************************)
(* Properties of extractShape(), dbg-v1 / dbg-v2-crop.                     *)
(***************************************************************************)
\* the reasons that start with 'texture load fail'
TextureLoadFail ==
  {"texture load fail: " \o m \o u : m \in {"img load error: ", "timeout:loadImage "}, u \in UrlsDbg}

\* C5: extractShape never hangs: a call whose texture fires neither load nor
\* error eventually returns ok=false with meta.fallback=true and a reason
\* that starts with 'texture load fail'; a call that was given a srcUrl is
\* never rejected; and a call whose mask load failed returns a result made
\* from the texture's alpha, meta.used = 'src'.
C5NeverHangs ==
  /\ [](\A c \in 1..Len(callsDbg) :
          /\ callsDbg[c].opts.srcUrl # NoPath => callsDbg[c].pc # "rejected"
          /\ callsDbg[c].pc = "done" /\ callsDbg[c].maskFailed => callsDbg[c].res.used = "src")
  /\ \A c \in 1..MaxCalls :
       (/\ c <= Len(callsDbg)
        /\ callsDbg[c].pc = "tex"
        /\ assetDbg[callsDbg[c].opts.srcUrl].fate = "never")
       ~> (/\ c <= Len(callsDbg)
           /\ callsDbg[c].pc = "done"
           /\ ~callsDbg[c].res.ok
           /\ callsDbg[c].res.fallback
           /\ callsDbg[c].res.reason \in TextureLoadFail)

\* a call whose texture never fired returned the timeout as a load failure
C5Witness ==
  \E c \in 1..Len(callsDbg) :
    /\ callsDbg[c].pc = "done"
    /\ assetDbg[callsDbg[c].opts.srcUrl].fate = "never"
    /\ ~callsDbg[c].res.ok
    /\ callsDbg[c].res.reason = "texture load fail: timeout:loadImage s.png"

\* C8: the outcome of extractShape is tagged: ok is true only when verts is
\* not null, so every failure of the geometry (too empty, contour too short,
\* no loop built, too few vertices, an exception) comes with ok=false and a
\* reason.
C8TaggedOutcome ==
  \A c \in 1..Len(callsDbg) :
    callsDbg[c].pc = "done" =>
      /\ callsDbg[c].res.ok => callsDbg[c].res.hasVerts
      /\ ~callsDbg[c].res.hasVerts => ~callsDbg[c].res.ok /\ callsDbg[c].res.reason # ""

(***************************************************************************)
(* Properties shared by the revisions.                                     *)
(***************************************************************************)
\* the image has no pixel above any alpha threshold
Transparent(img) == img.faint = 0 /\ img.opaque = 0

\* C9: for a fully transparent image extraction returns ok=false with a
\* reason of the 'no solid pixels' kind and still a non-empty polygon in the
\* field a successful result has it in: verts for #extract (v10), pts for
\* extract (v7 / v8).
C9TransparentFallback ==
  /\ \A c \in 1..Len(calls10) :
       calls10[c].pc = "done" /\ asset10[calls10[c].maskUrl].opaque = {}
                              /\ asset10[calls10[c].maskUrl].faint = {} =>
         /\ ~calls10[c].res.ok
         /\ calls10[c].res.reason = "mask has no solid pixels"
         /\ calls10[c].res.hasVerts /\ calls10[c].res.nVerts > 0
  /\ \A i \in 1..Len(promises) :
       promises[i].settled /\ Transparent(image[promises[i].maskPath])
                           /\ image[promises[i].maskPath].fate = "load" =>
         /\ ~promises[i].out.ok
         /\ promises[i].out.reason = "too few solid pixels (mask empty?)"
         /\ "pts" \in promises[i].out.keys /\ promises[i].out.pts > 0

\* C10: a vertex list that extractShape or #extract returns has between
\* minVerts and maxVerts entries: opts.minVerts (default 12) and opts.maxVerts
\* (default 64) in dbg-v1 / dbg-v2-crop, 12 and this.maxVerts in v10.
C10VertexBounds ==
  /\ \A c \in 1..Len(callsDbg) :
       callsDbg[c].pc = "done" /\ callsDbg[c].res.hasVerts =>
         /\ Nullish(callsDbg[c].opts.minVerts, DefaultMinVertsDbg) <= callsDbg[c].res.nVerts
         /\ callsDbg[c].res.nVerts <= Nullish(callsDbg[c].opts.maxVerts, DefaultMaxVertsDbg)
  /\ \A c \in 1..Len(calls10) :
       calls10[c].pc = "done" /\ calls10[c].res.hasVerts =>
         /\ calls10[c].res.nVerts = Len(calls10[c].res.pts)
         /\ MinVerts10 <= calls10[c].res.nVerts
         /\ calls10[c].res.nVerts <= opts10.maxVerts

\* extractShape returned a list that the clamp had shortened
C10Witness ==
  \E c \in 1..Len(callsDbg) :
    /\ callsDbg[c].pc = "done"
    /\ callsDbg[c].res.hasVerts
    /\ callsDbg[c].res.used = "src"
    /\ assetDbg["s.png"].simpLen > Nullish(callsDbg[c].opts.maxVerts, DefaultMaxVertsDbg)
    /\ callsDbg[c].res.nVerts < assetDbg["s.png"].simpLen

(***************************************************************************)
(* Properties of the pure functions.                                       *)
(***************************************************************************)
\* C18: in every binarizer, with invert off, a pixel is solid if and only if
\* its alpha byte is strictly greater than the threshold; a pixel whose alpha
\* equals the threshold is empty.
C18StrictlyGreater ==
  fnOut.kind = "bit" /\ ~fnIn.invert => (fnOut.solid <=> fnIn.a > fnIn.thr)

\* the pixels p and q of a grid of W columns touch: they differ by at most one
\* column and one row
Touch(W, p, q) ==
  LET dx == (p % W) - (q % W)
      dy == (p \div W) - (q \div W)
  IN  p # q /\ dx \in {0 - 1, 0, 1} /\ dy \in {0 - 1, 0, 1}

\* the 8-connected component of p in mask
RECURSIVE Component(_, _, _)
Component(mask, W, seen) ==
  LET more == {q \in mask \ seen : \E p \in seen : Touch(W, p, q)}
  IN  IF more = {} THEN seen ELSE Component(mask, W, seen \cup more)

Components(mask, W) == {Component(mask, W, {p}) : p \in mask}

\* the least index of a non-empty set of pixels
First(C) == CHOOSE p \in C : \A q \in C : p <= q

\* C19: the mask largestComponent returns is one maximal 8-connected
\* component of the input, rows not wrapping; none is larger; of those of its
\* size it is the one the row-major scan meets first; bestCount is its size,
\* comps the number of components; the output is empty iff the input is.
C19LargestComponent ==
  fnOut.kind = "comp" =>
    LET cs == Components(fnIn.mask, fnIn.W)
    IN  /\ fnOut.out = {} <=> fnIn.mask = {}
        /\ fnOut.comps = Cardinality(cs)
        /\ fnOut.bestCount = Cardinality(fnOut.out)
        /\ fnIn.mask # {} =>
             /\ fnOut.out \in cs
             /\ \A C \in cs :
                  /\ Cardinality(C) <= Cardinality(fnOut.out)
                  /\ Cardinality(C) = Cardinality(fnOut.out) => First(fnOut.out) <= First(C)

\* two components of the greatest size, one ending a row and the other
\* starting the next: the first one is returned
C19Witness ==
  /\ fnOut.kind = "comp"
  /\ fnOut.comps >= 2
  /\ \E C \in Components(fnIn.mask, fnIn.W) :
       /\ C # fnOut.out
       /\ Cardinality(C) = fnOut.bestCount
       /\ \E p \in fnOut.out, q \in C : q = p + 1 /\ q % fnIn.W = 0

\* C15: the polygon the winding fix returns has a shoelace area <= 0; the
\* order is reversed exactly when the area was positive; reversing negates the
\* area; fixing the result again changes nothing.
C15Winding ==
  (fnOp = "fixWinding") =>
    /\ PolygonArea(fnOut.pts) <= 0
    /\ PolygonArea(fnIn.pts) > 0 => fnOut.pts = Reverse(fnIn.pts) /\ fnOut.pts # fnIn.pts
    /\ PolygonArea(fnIn.pts) <= 0 => fnOut.pts = fnIn.pts
    /\ PolygonArea(Reverse(fnIn.pts)) = 0 - PolygonArea(fnIn.pts)
    /\ FixWinding(fnOut.pts) = fnOut.pts

\* a polygon of positive area went through the fix
C15Witness ==
  /\ fnOp = "fixWinding"
  /\ PolygonArea(fnIn.pts) > 0
  /\ PolygonArea(fnOut.pts) < 0

\* the pixels p and q are 8-adjacent
Adjacent8(p, q) ==
  p # q /\ p[1] - q[1] \in {0 - 1, 0, 1} /\ p[2] - q[2] \in {0 - 1, 0, 1}

\* the outer boundary of the filled rectangle x0..x1 by y0..y1
Ring(x0, y0, x1, y1) ==
  {p \in Rect(x0, y0, x1, y1) : p[1] \in {x0, x1} \/ p[2] \in {y0, y1}}

\* C20: the contour traceMoore returns for a filled rectangle of at least
\* 3 x 3 pixels off the grid border, started at its top-left-most boundary
\* pixel, is a closed walk over 8-adjacent pixels that contains every pixel of
\* the rectangle's outer boundary.
C20ClosedWalk ==
  fnOut.kind = "contour" =>
    LET c == fnOut.pts
    IN  /\ Len(c) >= 1 /\ c[1] = <<fnIn.x0, fnIn.y0>>
        /\ \A i \in 1..(Len(c) - 1) : Adjacent8(c[i], c[i + 1])
        /\ Adjacent8(c[Len(c)], c[1])
        /\ Ring(fnIn.x0, fnIn.y0, fnIn.x1, fnIn.y1) \subseteq {c[i] : i \in 1..Len(c)}

\* C11: for a mask with a large blob and a separate speck, wherever the
\* speck lies, every point of the contour traced by v10 and by
\* verticesFromImage lies on the blob.
C11ContourOnBlob ==
  fnOut.kind = "trace" =>
    /\ Len(fnOut.pixels) >= 1
    /\ \A i \in 1..Len(fnOut.pixels) : fnOut.pixels[i] \in fnIn.blob

\* the sums of the shoelace centroid of a polygon: <<6 A Cx, 6 A Cy>>
CentroidSums(pts) ==
  LET n == Len(pts)
      Cross(i) == pts[i][1] * pts[(i % n) + 1][2] - pts[(i % n) + 1][1] * pts[i][2]
      SX[i \in 0..n] == IF i = 0 THEN 0 ELSE SX[i - 1] + (pts[i][1] + pts[(i % n) + 1][1]) * Cross(i)
      SY[i \in 0..n] == IF i = 0 THEN 0 ELSE SY[i - 1] + (pts[i][2] + pts[(i % n) + 1][2]) * Cross(i)
  IN  <<SX[n], SY[n]>>

\* C13: a returned vertex list is relative to the polygon's own area-weighted
\* centroid: the shoelace centroid of the returned polygon is the origin.
C13OwnCentroid ==
  (fnOp = "verticesFromImage" /\ ~fnOut.null /\ PolygonArea(fnOut.pts) # 0) =>
    CentroidSums(fnOut.pts) = <<0, 0>>

\* C12: the extraction of a fully opaque square sprite succeeds with a
\* polygon of 4 to 8 vertices (v7, v8, v10).
C12OpaqueSquare ==
  fnOut.kind = "extraction" => fnOut.ok /\ fnOut.nVerts >= 4 /\ fnOut.nVerts <= 8

\* C17: when the pixel read of the canvas throws, load() of v10 resolves
\* with ok = false and a reason, and a spawnNext that awaited the trace (it
\* left the await without a vertex list) does not reject.
C17ReadDenied ==
  /\ \A c \in 1..Len(calls10) :
       (asset10[calls10[c].maskUrl].tainted /\ calls10[c].ranExtract) =>
         /\ calls10[c].pc = "done"
         /\ ~calls10[c].res.ok /\ calls10[c].res.reason # ""
  /\ \A c \in 1..Len(spawns) :
       (spawns[c].pc # "await" /\ spawns[c].verts = Undef /\ spawns[c].src # "") =>
         spawns[c].pc = "done"

\* the fraction f lies in [0, 1]
InUnit(f) == 0 <= f.n /\ f.n <= f.d

\* C14: in every result with vertices, meta.spriteOffset.x and
\* meta.spriteOffset.y of extractShape lie in [0, 1].
C14OffsetsInUnit ==
  (fnOut.kind = "shape" /\ ~fnOut.fallback) => InUnit(fnOut.ox) /\ InUnit(fnOut.oy)

\* C21: after every step of the walk of #traceBoundary the backtrack pixel is
\* 8-adjacent to the current pixel and is not a solid pixel.
C21BacktrackAdjacent ==
  (fnOut.kind = "walk" /\ fnOut.t.steps >= 1) =>
    /\ Adjacent8(fnOut.t.prev, fnOut.t.cur)
    /\ ~IsSolid(fnIn.solid, StepW, StepH, fnOut.t.prev[1], fnOut.t.prev[2])

\* C22: for a region pinched at the start pixel the Moore walk of
\* verticesFromImage and of traceMoore does not stop at the first return to
\* the start: the contour starts at the apex and holds pixels of both lobes.
C22BothLobes ==
  fnOut.kind = "walked" =>
    LET c == {fnOut.pts[i] : i \in 1..Len(fnOut.pts)}
    IN  /\ fnOut.start = fnIn.apex
        /\ c \cap fnIn.left # {}
        /\ c \cap fnIn.right # {}

\* i is the farthest point, the first one on ties, strictly between a and b
FirstFarthest(points, a, i, b) ==
  LET d(j) == SegDist2(points[j], points[a], points[b])
  IN  /\ \A j \in (a + 1)..(b - 1) : ~FracGt(d(j), d(i))
      /\ \A j \in (a + 1)..(i - 1) : FracGt(d(i), d(j))

\* C23: rdpSimplify returns the points at the kept indexes in their order,
\* the first and the last among them; every kept inner point is the first
\* farthest point of a span between two kept points, farther than epsilon
\* from its chord; every dropped point is within epsilon of the segment
\* joining the two kept points that enclose it; the input is not modified.
C23RdpSimplify ==
  fnOut.kind = "simplified" =>
    LET points == fnIn.points
        n == Len(points)
        K == fnOut.keep
        sqEps == EpsSq(fnIn.eps)
    IN  /\ K \subseteq 1..n /\ 1 \in K /\ n \in K
        /\ fnOut.out = Kept(points, K, 1)
        /\ Len(fnOut.out) = Cardinality(K)
        /\ \A i \in K \ {1, n} :
             \E a \in K, b \in K :
               /\ a < i /\ i < b
               /\ FirstFarthest(points, a, i, b)
               /\ FracGt(SegDist2(points[i], points[a], points[b]), sqEps)
        /\ \A a \in K, b \in K :
             (a < b /\ \A j \in (a + 1)..(b - 1) : j \notin K) =>
               \A j \in (a + 1)..(b - 1) :
                 ~FracGt(SegDist2(points[j], points[a], points[b]), sqEps)
        /\ fnOut.points = points

\* a sequence of four points of which one inner point is kept and one dropped
C23Witness ==
  /\ fnOut.kind = "simplified"
  /\ Len(fnIn.points) = 4
  /\ Cardinality(fnOut.keep) = 3

\* the squared distance of p to the segment a b: to the nearer end when the
\* foot of the perpendicular falls outside the segment
ClampedDist2(p, a, b) ==
  LET ab == Dist2(a, b)
      dot == (p[1] - a[1]) * (b[1] - a[1]) + (p[2] - a[2]) * (b[2] - a[2])
  IN  IF ab = 0 \/ dot <= 0 THEN Frac(Dist2(p, a), 1)
      ELSE IF dot >= ab THEN Frac(Dist2(p, b), 1)
      ELSE Frac(Sq((b[1] - a[1]) * (p[2] - a[2]) - (b[2] - a[2]) * (p[1] - a[1])), ab)

\* C24: every RDP implementation returns the distance of the point to the
\* segment, with the projection clamped to the segment.
C24ClampedDistance ==
  fnOut.kind = "dist" =>
    LET c == ClampedDist2(fnIn.p, fnIn.a, fnIn.b)
    IN  fnOut.d.n * c.d = c.n * fnOut.d.d

\* C25: a contour buildContourFromBinary returns is a simple closed loop: no
\* point occurs twice, and every consecutive pair of points, the pair (last,
\* first) included, are the two ends of an emitted segment.
C25SimpleLoop ==
  (fnOut.kind = "built" /\ fnOut.contour # <<>>) =>
    LET c == fnOut.contour
        n == Len(c)
        Seg(p, q) == \E k \in 1..Len(fnOut.segs) :
                       fnOut.segs[k] = <<p, q>> \/ fnOut.segs[k] = <<q, p>>
    IN  /\ \A i \in 1..n, j \in 1..n : i # j => c[i] # c[j]
        /\ \A i \in 1..n : Seg(c[i], c[(i % n) + 1])

\* C26: a call of extract() (directly or through makeBody) for a path whose
\* cached promise has resolved with the load error starts a new image load
\* for that path.
C26RetryAfterLoadError ==
  [][\A p \in Paths :
       (/\ cache[p] # 0
        /\ promises[cache[p]].settled
        /\ promises[cache[p]].out = LoadErrorOut(p)
        /\ Len(calls') = Len(calls) + 1
        /\ calls'[Len(calls')].maskPath = p
        /\ calls'[Len(calls')].promise # 0)
       => imgLoads'[p] = imgLoads[p] + 1]_vars

\* C27: under any interleaving of start(), drop(), gameOver() and the spawn
\* timer of drop(), the world holds at most one static 'animal' body, that
\* body is this.active, and no piece in the world comes from a timer that
\* was set in an earlier game (before the last start()).
C27OnePieceInHand ==
  /\ Cardinality({b \in bodiesG : b.isStatic}) <= 1
  /\ \A b \in bodiesG : b.isStatic => activeG = b.id
  /\ \A b \in bodiesG : b.by = "timer" => b.game = engineG

GaugesInRange ==
  /\ SBar.fear \in 0..100
  /\ SBar.sup \in 0..100
  /\ SBar.cur \in 0..100

\* the step is the reset handler
IsReset == SBar' = StartS(dataBar) /\ actionsBar' = 0 /\ doneBar' = 0

DayLoopStep ==
  /\ SBar'.day # SBar.day =>
       \/ SBar.phase = "after" /\ SBar'.day = SBar.day + 1 /\ doneBar = 1
       \/ IsReset
  /\ (SBar'.phase = "mini" /\ SBar.phase # "mini") => SBar.phase = "choose"
  /\ actionsBar' # actionsBar =>
       \/ /\ actionsBar' = actionsBar + 1
          /\ doneBar = 0 /\ doneBar' = 1
          /\ SBar.phase \in {"choose", "mini"}
          /\ SBar'.day = SBar.day
       \/ IsReset
  /\ <<SBar'.fear, SBar'.sup, SBar'.cur>> # <<SBar.fear, SBar.sup, SBar.cur>> =>
       actionsBar' = actionsBar + 1 \/ IsReset

\* C28: the day counter changes only through nextDay in phase "after" (by
\* one, after exactly one completed action) or through reset; a mini-game
\* is entered only from phase "choose" and an action completes only from
\* "choose" or "mini", once per day; the gauges change only when an action
\* completes (or on reset) and fear, sup and cur stay within [0,100].
C28DayLoop == [](GaugesInRange /\ doneBar <= 1) /\ [][DayLoopStep]_vars

\* the second day's action has completed, a gauge at the edge of its range
C28Witness ==
  /\ SBar.day = 2
  /\ SBar.phase = "after"
  /\ doneBar = 1
  /\ actionsBar = 2
  /\ SBar.fear = 100

AllZero == SBar.fear = 0 /\ SBar.sup = 0 /\ SBar.cur = 0

EndingStep ==
  /\ (SBar.phase = "end" /\ SBar'.phase # "end") => IsReset
  /\ (endingBar' = "defeat" /\ endingBar # "defeat") =>
       SBar.phase = "after" /\ SBar'.day = SBar.day + 1 /\ SBar'.day > MAX_DAYS
  /\ (endingBar' = "victory" /\ endingBar # "victory") =>
       actionsBar' = actionsBar + 1 /\ SBar'.day = SBar.day

\* C29: at most MAX_DAYS actions complete in a game and the day counter
\* never passes MAX_DAYS + 1; the phase is "end" exactly when an ending is
\* shown; right after an action the ending is victory exactly when fear,
\* sup and cur are all 0 (on day MAX_DAYS too); defeat is shown exactly
\* when nextDay has raised the day above MAX_DAYS; "end" is left only by
\* reset.
C29EveryGameEnds ==
  /\ [](/\ actionsBar <= MAX_DAYS
        /\ SBar.day <= MAX_DAYS + 1
        /\ (SBar.phase = "end") = (endingBar # "")
        /\ doneBar = 1 => (AllZero = (endingBar = "victory"))
        /\ endingBar = "victory" => (doneBar = 1 /\ AllZero)
        /\ (endingBar = "defeat") = (SBar.day > MAX_DAYS)
        /\ endingBar = "defeat" => ~AllZero)
  /\ [][EndingStep]_vars

\* a victory on the last day, after MAX_DAYS actions
C29Witness ==
  /\ endingBar = "victory"
  /\ SBar.day = MAX_DAYS
  /\ actionsBar = MAX_DAYS

SortedLb(arr) ==
  \A i \in 1..(Len(arr) - 1) :
    \/ arr[i].score > arr[i + 1].score
    \/ arr[i].score = arr[i + 1].score /\ arr[i].t <= arr[i + 1].t

ScoresOf(arr) == [i \in 1..Len(arr) |-> arr[i].score]

HighestAdded == IF addedLb = {} THEN 0 ELSE CHOOSE m \in addedLb : \A x \in addedLb : x <= m

\* C30: after any sequence of add() calls on an empty store the stored
\* list is sorted by score descending, equal scores by earlier timestamp
\* first, and has at most maxEntries entries; getBestScore() is the highest
\* score ever added (0 when none was); and an add() of a score that did not
\* qualify on a full list left the stored scores as they were.
C30Leaderboard ==
  /\ SortedLb(storeLb)
  /\ Len(storeLb) <= MaxEntries
  /\ getBestScore(storeLb) = HighestAdded
  /\ (/\ lastAddLb.kind = "add"
      /\ Len(lastAddLb.before) = MaxEntries
      /\ ~qualifies(lastAddLb.before, lastAddLb.score))
     => ScoresOf(storeLb) = ScoresOf(lastAddLb.before)

\* a full list of two equal scores, and an add() that did not qualify
C30Witness ==
  /\ lastAddLb.kind = "add"
  /\ Len(lastAddLb.before) = MaxEntries
  /\ ~qualifies(lastAddLb.before, lastAddLb.score)
  /\ lastAddLb.score = lastAddLb.before[MaxEntries].score
  /\ lastAddLb.score > 0
  /\ Cardinality(addedLb) >= 2

====
